---- MODULE Spec2Model ----
(***************************************************************************)
(* AESA core scheduling engine (engine/src/scheduler.c).                   *)
(*                                                                         *)
(* optimize_schedule is modelled as a state machine: one step for the      *)
(* prologue of optimize_schedule (validation, timeline creation, fixed     *)
(* slots, working copy, qsort, placements), one step per control point of  *)
(* the recursive backtrack (the C call stack is the variable stack), and   *)
(* one step for the epilogue.                                              *)
(***************************************************************************)
EXTENDS Integers, Sequences, FiniteSets, TLC

(* ------------------------------------------------------------------ *)
(* Program constants (scheduler.h)                                     *)
(* ------------------------------------------------------------------ *)
MAX_TASKS == 500
MAX_SLOTS == 336
SLOTS_PER_DAY == 48

TASK_UNIVERSITY == 0
TASK_STUDY == 1
TASK_REVISION == 2
TASK_PRACTICE == 3
TASK_ASSIGNMENT == 4
TASK_LAB_WORK == 5
TASK_DEEP_WORK == 6
TASK_BREAK == 7
TASK_FREE_TIME == 8
TASK_SLEEP == 9
TASK_WAKE_ROUTINE == 10
TASK_BREAKFAST == 11
TASK_LUNCH == 12
TASK_DINNER == 13
TASK_TYPE_COUNT == 14

ENERGY_ANY == 0
ENERGY_PREFER_LOW == 1
ENERGY_PREFER_MEDIUM == 2
ENERGY_PREFER_PEAK == 3

PRIORITY_FREE_TIME == 10
PRIORITY_REGULAR_STUDY == 50
PRIORITY_ASSIGNMENT == 60
PRIORITY_DUE_TODAY == 90

\* the C type int is 32 bits wide
INT_MAX == 2147483647

\* the number of days timeline_create asks timeline_init for
DEFAULT_NUM_DAYS == 7

\* task_id of an empty slot, placements[] of an unplaced task
EMPTY == -1

(* ------------------------------------------------------------------ *)
(* Bounds of the model                                                 *)
(* ------------------------------------------------------------------ *)
\* days of the timeline (timeline_create passes 7; the solver only reads num_slots)
NumDays == 1
\* longest task array of a request
MaxTasks == 2
\* longest fixed-slot descriptor array of a request
MaxFixed == 1

VARIABLES
    tasks,          \* the caller's task array
    tasks_null,     \* TRUE when the caller passes tasks == NULL
    num_tasks,      \* the caller's num_tasks argument
    fixed_slots,    \* the caller's fixed-slot descriptor array
    alloc_fail,     \* which allocation of the call fails ("none" if none)
    prev,           \* the result of the previous call, <<>> if none
    pc,             \* "call", "search", "done"
    returned_null,  \* optimize_schedule returned NULL
    num_slots,      \* timeline->num_slots
    slots,          \* timeline->slots[0 .. num_slots-1]
    success,        \* timeline->success
    error_message,  \* timeline->error_message, as a tuple of its parts
    sorted_tasks,   \* the working copy, after qsort
    placements,     \* placements[], indexed 1..num_tasks for task_index 0..num_tasks-1
    heap,           \* state of the two working arrays: "none", "live", "freed"
    stack,          \* activation records of backtrack, innermost last
    ret,            \* value just returned by a backtrack call: "none", "true", "false"
    oob,            \* place_task or remove_task wrote a slot index outside [0, num_slots)
    explored,       \* the search nodes entered so far: <<task_index, placements before it>>
    revisited,      \* backtrack was entered on a node of explored
    input_json,     \* main: what the document on standard input holds
    exit_code,      \* main: the value main returned, -1 while it runs
    out,            \* main: the text written to standard output, in pieces
    err             \* main: the lines written to standard error

vars == << tasks, tasks_null, num_tasks, fixed_slots, alloc_fail, prev, pc,
           returned_null, num_slots, slots, success, error_message, sorted_tasks,
           placements, heap, stack, ret, oob, explored, revisited,
           input_json, exit_code, out, err >>

\* the state of the process around the call of optimize_schedule
process_vars == << input_json, exit_code, out, err >>

\* the record of the nodes of the search tree
history_vars == << explored, revisited >>

input_vars == << tasks, tasks_null, num_tasks, fixed_slots, alloc_fail >>

(* ------------------------------------------------------------------ *)
(* Energy map                                                          *)
(* ------------------------------------------------------------------ *)
slot_to_hour(slot_index) == (slot_index % SLOTS_PER_DAY) \div 2

\* variant of get_energy_level whose low class forgets the hours before 6
get_energy_level_no_night(slot_index) ==
    LET hour == slot_to_hour(slot_index) IN
    IF (hour >= 8 /\ hour < 10) \/ (hour >= 16 /\ hour < 18) THEN 9
    ELSE IF (hour >= 6 /\ hour < 8) \/ (hour >= 10 /\ hour < 12)
            \/ (hour >= 14 /\ hour < 16) \/ (hour >= 18 /\ hour < 20) THEN 6
    ELSE IF (hour >= 12 /\ hour < 14) \/ hour >= 20 THEN 3
    ELSE 5

get_energy_level(slot_index) ==
    LET hour == slot_to_hour(slot_index) IN
    IF (hour >= 8 /\ hour < 10) \/ (hour >= 16 /\ hour < 18) THEN 9
    ELSE IF (hour >= 6 /\ hour < 8) \/ (hour >= 10 /\ hour < 12)
            \/ (hour >= 14 /\ hour < 16) \/ (hour >= 18 /\ hour < 20) THEN 6
    ELSE IF (hour >= 12 /\ hour < 14) \/ hour >= 20 \/ hour < 6 THEN 3
    ELSE 5

is_peak_energy_period(slot_index) ==
    LET hour == slot_to_hour(slot_index) IN
    (hour >= 8 /\ hour < 10) \/ (hour >= 16 /\ hour < 18)

is_medium_energy_period(slot_index) ==
    LET hour == slot_to_hour(slot_index) IN
    (hour >= 6 /\ hour < 8) \/ (hour >= 10 /\ hour < 12)
        \/ (hour >= 14 /\ hour < 16) \/ (hour >= 18 /\ hour < 20)

is_low_energy_period(slot_index) ==
    LET hour == slot_to_hour(slot_index) IN
    (hour >= 12 /\ hour < 14) \/ hour >= 20 \/ hour < 6

(* ------------------------------------------------------------------ *)
(* Timeline construction                                               *)
(* ------------------------------------------------------------------ *)
timeslot_init(index) ==
    [slot_index |-> index, task_id |-> EMPTY,
     energy_level |-> get_energy_level(index), is_fixed |-> FALSE]

\* total_slots of timeline_init(timeline, num_days)
total_slots(num_days) ==
    IF num_days * SLOTS_PER_DAY > MAX_SLOTS THEN MAX_SLOTS ELSE num_days * SLOTS_PER_DAY

timeline_init_slots(num_days) ==
    [i \in 0 .. total_slots(num_days) - 1 |-> timeslot_init(i)]

\* variant of the guard of the fixed-slot loop that leaves slot 0 out
FixedInRange_positive(idx, n_slots) == idx > 0 /\ idx < n_slots

\* the guard of the fixed-slot loop of optimize_schedule
FixedInRange(idx, n_slots) == idx >= 0 /\ idx < n_slots

\* variant of the fixed-slot loop that skips a descriptor without a task
RECURSIVE ApplyFixedFrom_skip_empty(_, _, _)
ApplyFixedFrom_skip_empty(sl, fixed, k) ==
    IF k > Len(fixed) THEN sl
    ELSE LET idx == fixed[k].slot_index IN
         IF FixedInRange(idx, total_slots(NumDays)) /\ fixed[k].task_id # EMPTY
         THEN ApplyFixedFrom_skip_empty([sl EXCEPT ![idx].task_id = fixed[k].task_id,
                                                   ![idx].is_fixed = TRUE], fixed, k + 1)
         ELSE ApplyFixedFrom_skip_empty(sl, fixed, k + 1)

\* variant of the fixed-slot loop in which the first descriptor of a slot wins
RECURSIVE ApplyFixedFrom_first_wins(_, _, _)
ApplyFixedFrom_first_wins(sl, fixed, k) ==
    IF k > Len(fixed) THEN sl
    ELSE LET idx == fixed[k].slot_index IN
         IF FixedInRange(idx, total_slots(NumDays)) /\ ~sl[idx].is_fixed
         THEN ApplyFixedFrom_first_wins([sl EXCEPT ![idx].task_id = fixed[k].task_id,
                                                   ![idx].is_fixed = TRUE], fixed, k + 1)
         ELSE ApplyFixedFrom_first_wins(sl, fixed, k + 1)

\* the loop "Apply fixed slots first": descriptors k .. Len(fixed) applied in order
RECURSIVE ApplyFixedFrom(_, _, _)
ApplyFixedFrom(sl, fixed, k) ==
    IF k > Len(fixed) THEN sl
    ELSE LET idx == fixed[k].slot_index IN
         IF FixedInRange(idx, total_slots(NumDays))
         THEN ApplyFixedFrom([sl EXCEPT ![idx].task_id = fixed[k].task_id,
                                        ![idx].is_fixed = TRUE], fixed, k + 1)
         ELSE ApplyFixedFrom(sl, fixed, k + 1)

(* ------------------------------------------------------------------ *)
(* Priority order                                                      *)
(* ------------------------------------------------------------------ *)
\* variant of the comparator that puts the lowest priority first
task_compare_priority_ascending(task_a, task_b) == task_a.priority - task_b.priority

task_compare_priority(task_a, task_b) == task_b.priority - task_a.priority

Permutations_of(n) ==
    {p \in [1 .. n -> 1 .. n] : \A i, j \in 1 .. n : i # j => p[i] # p[j]}

\* qsort(sorted_tasks, num_tasks, sizeof(Task), task_compare_priority): every
\* arrangement of the array that the comparator accepts as sorted; the order of
\* elements that compare equal is unspecified by the C library
QsortOutcomes(arr) ==
    {[i \in 1 .. Len(arr) |-> arr[p[i]]] : p \in
        {q \in Permutations_of(Len(arr)) :
            \A i, j \in 1 .. Len(arr) :
                i < j => task_compare_priority(arr[q[i]], arr[q[j]]) <= 0}}

(* ------------------------------------------------------------------ *)
(* Constraint checking                                                 *)
(* ------------------------------------------------------------------ *)
\* Arithmetic in the type int. Signed overflow is undefined in C: the builds either
\* wrap the sum (ovf = "wrap") or fold the comparison it feeds as if the sum
\* were exact (ovf = "exact")
\* The operator is "a + b > limit" for a >= 0 (the only use in the code).
IntAddExceeds(a, b, limit, ovf) ==
    IF b > 0 /\ a > INT_MAX - b
    THEN IF ovf = "wrap" THEN (a - INT_MAX - 1) + (b - INT_MAX - 1) > limit ELSE TRUE
    ELSE a + b > limit

OverflowOutcomes == {"wrap", "exact"}

\* the bounds guard of is_slot_available: TRUE when the index may be dereferenced
SlotIndexOK(slot_index) == ~(slot_index < 0 \/ slot_index >= num_slots)

\* timeline->slots[slot_index]; the array has MAX_SLOTS cells, those past
\* num_slots are never initialised (read here as an untouched cell)
SlotAt(sl, slot_index) ==
    IF slot_index \in DOMAIN sl THEN sl[slot_index] ELSE timeslot_init(slot_index)

\* variant of is_slot_available that forgets the occupancy test
is_slot_available_no_occupancy(sl, slot_index) ==
    IF ~SlotIndexOK(slot_index) THEN FALSE
    ELSE ~SlotAt(sl, slot_index).is_fixed

\* variant of is_slot_available that forgets the is_fixed test
is_slot_available_no_fixed(sl, slot_index) ==
    IF ~SlotIndexOK(slot_index) THEN FALSE
    ELSE SlotAt(sl, slot_index).task_id = EMPTY

is_slot_available(sl, slot_index) ==
    IF ~SlotIndexOK(slot_index) THEN FALSE
    ELSE SlotAt(sl, slot_index).task_id = EMPTY /\ ~SlotAt(sl, slot_index).is_fixed

\* the loop "Check all required slots are available" of can_place_task, entered
\* at offset i: the offset at which it stops (duration_slots or more when it
\* runs to its end, the offset of the first unavailable slot otherwise)
RECURSIVE AvailableLoop(_, _, _, _)
AvailableLoop(sl, task, start_slot, i) ==
    IF i >= task.duration_slots THEN i
    ELSE IF ~is_slot_available(sl, start_slot + i) THEN i
    ELSE AvailableLoop(sl, task, start_slot, i + 1)

\* variant of the deadline test that compares the start, not the end
DeadlineMissed_start_only(task, start_slot, ovf) ==
    task.deadline_slot >= 0 /\ start_slot > task.deadline_slot

\* variant of the deadline test with >= in place of >
DeadlineMissed_strict(task, start_slot, ovf) ==
    task.deadline_slot >= 0
        /\ IntAddExceeds(start_slot, task.duration_slots, task.deadline_slot - 1, ovf)

\* variant of the deadline test that takes deadline 0 for "no deadline"
DeadlineMissed_positive_only(task, start_slot, ovf) ==
    task.deadline_slot > 0
        /\ IntAddExceeds(start_slot, task.duration_slots, task.deadline_slot, ovf)

\* the deadline test of can_place_task: TRUE when the start is rejected
DeadlineMissed(task, start_slot, ovf) ==
    task.deadline_slot >= 0
        /\ IntAddExceeds(start_slot, task.duration_slots, task.deadline_slot, ovf)

\* variant of can_place_task without the deadline test
can_place_task_no_deadline(sl, task, start_slot, ovf) ==
    IF start_slot < 0 \/ IntAddExceeds(start_slot, task.duration_slots, num_slots, ovf)
    THEN FALSE
    ELSE AvailableLoop(sl, task, start_slot, 0) >= task.duration_slots

can_place_task(sl, task, start_slot, ovf) ==
    IF start_slot < 0 \/ IntAddExceeds(start_slot, task.duration_slots, num_slots, ovf)
    THEN FALSE
    ELSE IF DeadlineMissed(task, start_slot, ovf) THEN FALSE
    ELSE AvailableLoop(sl, task, start_slot, 0) >= task.duration_slots

\* the slot indices can_place_task dereferences for one start
Dereferenced(sl, task, start_slot, ovf) ==
    IF start_slot < 0 \/ IntAddExceeds(start_slot, task.duration_slots, num_slots, ovf)
    THEN {}
    ELSE IF DeadlineMissed(task, start_slot, ovf) THEN {}
    ELSE LET stop == AvailableLoop(sl, task, start_slot, 0)
             last == IF stop >= task.duration_slots THEN task.duration_slots - 1 ELSE stop
         IN {start_slot + i : i \in {k \in 0 .. last : SlotIndexOK(start_slot + k)}}

\* variant of the write loop with i < duration_slots - 1
IsWritten_one_less(task, start_slot, x) ==
    x >= start_slot /\ x - start_slot < task.duration_slots - 1

\* variant of the write loop with i <= duration_slots
IsWritten_one_more(task, start_slot, x) ==
    x >= start_slot /\ x - start_slot <= task.duration_slots

\* x is one of the indices start_slot + i, 0 <= i < duration_slots, that
\* place_task and remove_task write
IsWritten(task, start_slot, x) == x >= start_slot /\ x - start_slot < task.duration_slots

\* place_task or remove_task writes an index outside [0, num_slots)
WritesOutside(task, start_slot) ==
    task.duration_slots >= 1
        /\ (start_slot < 0 \/ task.duration_slots > num_slots - start_slot)

\* variant of place_task that also sets is_fixed on the slots it writes
place_task_sets_fixed(sl, task, start_slot) ==
    [x \in DOMAIN sl |->
        IF x >= start_slot /\ x - start_slot < task.duration_slots
        THEN [sl[x] EXCEPT !.task_id = task.id, !.is_fixed = TRUE] ELSE sl[x]]

\* variant of place_task that marks the first slot only
place_task_first_only(sl, task, start_slot) ==
    [x \in DOMAIN sl |->
        IF x = start_slot /\ task.duration_slots >= 1
        THEN [sl[x] EXCEPT !.task_id = task.id] ELSE sl[x]]

place_task(sl, task, start_slot) ==
    [x \in DOMAIN sl |->
        IF IsWritten(task, start_slot, x)
        THEN [sl[x] EXCEPT !.task_id = task.id] ELSE sl[x]]

\* variant of remove_task that leaves the last slot of the run as it is
remove_task_one_less(sl, task, start_slot) ==
    [x \in DOMAIN sl |->
        IF IsWritten(task, start_slot, x) /\ ~IsWritten(task, start_slot, x + 1)
        THEN sl[x]
        ELSE IF IsWritten(task, start_slot, x)
        THEN [sl[x] EXCEPT !.task_id = EMPTY] ELSE sl[x]]

\* variant of remove_task that clears the first slot only
remove_task_first_only(sl, task, start_slot) ==
    [x \in DOMAIN sl |->
        IF x = start_slot /\ task.duration_slots >= 1
        THEN [sl[x] EXCEPT !.task_id = EMPTY] ELSE sl[x]]

remove_task(sl, task, start_slot) ==
    [x \in DOMAIN sl |->
        IF IsWritten(task, start_slot, x)
        THEN [sl[x] EXCEPT !.task_id = EMPTY] ELSE sl[x]]

(* ------------------------------------------------------------------ *)
(* Energy score                                                        *)
(* ------------------------------------------------------------------ *)
\* variant of calculate_energy_score that gives study and deep work the peak
\* bonus in the medium periods
calculate_energy_score_medium_first(task, slot_index) ==
    IF task.type = TASK_STUDY \/ task.type = TASK_DEEP_WORK
    THEN IF is_medium_energy_period(slot_index) THEN 10
         ELSE IF is_peak_energy_period(slot_index) THEN 5 ELSE 0
    ELSE 0

\* variant of calculate_energy_score that looks at the last slot of the run
calculate_energy_score_run_end(task, slot_index) ==
    IF task.type = TASK_STUDY \/ task.type = TASK_DEEP_WORK
    THEN IF is_peak_energy_period(slot_index + task.duration_slots - 1) THEN 10
         ELSE IF is_medium_energy_period(slot_index + task.duration_slots - 1) THEN 5 ELSE 0
    ELSE IF task.type = TASK_PRACTICE \/ task.type = TASK_REVISION
    THEN IF is_peak_energy_period(slot_index + task.duration_slots - 1) THEN 7
         ELSE IF is_medium_energy_period(slot_index + task.duration_slots - 1) THEN 8 ELSE 0
    ELSE 0

calculate_energy_score(task, slot_index) ==
    LET kind ==
            IF task.type = TASK_STUDY \/ task.type = TASK_DEEP_WORK
            THEN IF is_peak_energy_period(slot_index) THEN 10
                 ELSE IF is_medium_energy_period(slot_index) THEN 5 ELSE 0
            ELSE IF task.type = TASK_PRACTICE \/ task.type = TASK_REVISION
            THEN IF is_peak_energy_period(slot_index) THEN 7
                 ELSE IF is_medium_energy_period(slot_index) THEN 8 ELSE 0
            ELSE IF task.type = TASK_BREAK \/ task.type = TASK_FREE_TIME
            THEN IF is_low_energy_period(slot_index) THEN 10 ELSE 0
            ELSE 0
        pref ==
            IF task.preferred_energy # ENERGY_ANY
            THEN IF task.preferred_energy = ENERGY_PREFER_PEAK
                        /\ is_peak_energy_period(slot_index) THEN 5
                 ELSE IF task.preferred_energy = ENERGY_PREFER_MEDIUM
                        /\ is_medium_energy_period(slot_index) THEN 5
                 ELSE IF task.preferred_energy = ENERGY_PREFER_LOW
                        /\ is_low_energy_period(slot_index) THEN 5
                 ELSE 0
            ELSE 0
    IN kind + pref

(* ------------------------------------------------------------------ *)
(* Candidates of one search node                                       *)
(* ------------------------------------------------------------------ *)
\* variant of the candidate loop with slot <= num_slots
LastLoopSlot_inclusive == num_slots

\* the last value of slot in "for (slot = 0; slot < timeline->num_slots; slot++)"
LastLoopSlot == num_slots - 1

\* variant of the candidate loop that begins at slot 1
CollectCandidates_from_one(sl, task, ovf) ==
    LET feas == SelectSeq([k \in 1 .. LastLoopSlot |-> k],
                          LAMBDA s : can_place_task(sl, task, s, ovf))
    IN [k \in 1 .. Len(feas) |->
            [slot |-> feas[k], score |-> calculate_energy_score(task, feas[k])]]

\* "First pass: collect all valid slots with scores", in the order of the loop
CollectCandidates(sl, task, ovf) ==
    LET feas == SelectSeq([k \in 1 .. LastLoopSlot + 1 |-> k - 1],
                          LAMBDA s : can_place_task(sl, task, s, ovf))
    IN [k \in 1 .. Len(feas) |->
            [slot |-> feas[k], score |-> calculate_energy_score(task, feas[k])]]

\* variant of the body of the inner loop that also swaps equal scores
BubbleStep_unstable(c, j) ==
    IF c[j + 1].score <= c[j + 2].score
    THEN [c EXCEPT ![j + 1] = c[j + 2], ![j + 2] = c[j + 1]]
    ELSE c

\* variant of the body of the inner loop that sorts by ascending score
BubbleStep_ascending(c, j) ==
    IF c[j + 1].score > c[j + 2].score
    THEN [c EXCEPT ![j + 1] = c[j + 2], ![j + 2] = c[j + 1]]
    ELSE c

\* the body of the inner loop of the bubble sort for one j (candidates[j] of the
\* code is c[j + 1] here)
BubbleStep(c, j) ==
    IF c[j + 1].score < c[j + 2].score
    THEN [c EXCEPT ![j + 1] = c[j + 2], ![j + 2] = c[j + 1]]
    ELSE c

\* the steps j = lo, ..., hi - 1 of the inner loop, in this order: the first
\* half of them, then the second half on the array the first half leaves
RECURSIVE BubbleSteps(_, _, _)
BubbleSteps(c, lo, hi) ==
    IF lo >= hi THEN c
    ELSE IF hi = lo + 1 THEN CHOOSE r \in {BubbleStep(x, j) : x \in {c}, j \in {lo}} : TRUE
    ELSE CHOOSE r \in
            {BubbleSteps(x, mid, h) :
                x \in {BubbleSteps(c, lo, (lo + hi) \div 2)},
                mid \in {(lo + hi) \div 2}, h \in {hi}} : TRUE

\* the inner loop of the bubble sort for one i, from j on
BubblePass(c, i, j) ==
    CHOOSE r \in {BubbleSteps(c, lo, hi) : lo \in {j}, hi \in {Len(c) - i - 1}} : TRUE

\* the passes i = lo, ..., hi - 1 of the outer loop, in this order
RECURSIVE BubblePasses(_, _, _)
BubblePasses(c, lo, hi) ==
    IF lo >= hi THEN c
    ELSE IF hi = lo + 1 THEN CHOOSE r \in {BubblePass(x, i, 0) : x \in {c}, i \in {lo}} : TRUE
    ELSE CHOOSE r \in
            {BubblePasses(x, mid, h) :
                x \in {BubblePasses(c, lo, (lo + hi) \div 2)},
                mid \in {(lo + hi) \div 2}, h \in {hi}} : TRUE

\* the outer loop of the bubble sort, from i on
BubbleSort(c, i) ==
    CHOOSE r \in {BubblePasses(c, lo, hi) : lo \in {i}, hi \in {Len(c) - 1}} : TRUE

SortedCandidates(sl, task, ovf) ==
    CHOOSE r \in {BubbleSort(x, 0) : x \in {CollectCandidates(sl, task, ovf)}} : TRUE

(* ------------------------------------------------------------------ *)
(* Requests                                                            *)
(* ------------------------------------------------------------------ *)
Task(id, type, duration_slots, priority, deadline_slot, is_fixed, preferred_energy) ==
    [id |-> id, type |-> type, duration_slots |-> duration_slots,
     priority |-> priority, deadline_slot |-> deadline_slot,
     is_fixed |-> is_fixed, preferred_energy |-> preferred_energy]

FixedSlot(slot_index, task_id) == [slot_index |-> slot_index, task_id |-> task_id]

\* sequences without repetition of at most maxlen elements of S
ListsOf(S, maxlen) ==
    UNION {{q \in [1 .. n -> S] : \A i, j \in 1 .. n : i # j => q[i] # q[j]} :
              n \in 0 .. maxlen}

\* the elements of the tuple pool at the indices I, in the order of the pool
RECURSIVE PickFrom(_, _)
PickFrom(pool, I) ==
    IF I = {} THEN << >>
    ELSE LET m == CHOOSE x \in I : \A y \in I : x <= y
         IN << pool[m] >> \o PickFrom(pool, I \ {m})

\* well-formed tasks (the id is given by the position in the request): deadlines
\* 1 and 3 make slots 0..2 scarce, priority 10 puts the task without deadline last
TaskPool ==
    { Task(0, TASK_BREAK, 1, PRIORITY_DUE_TODAY, 3, FALSE, ENERGY_ANY),
      Task(0, TASK_BREAK, 2, PRIORITY_DUE_TODAY, 3, FALSE, ENERGY_ANY),
      Task(0, TASK_STUDY, 2, PRIORITY_FREE_TIME, EMPTY, FALSE, ENERGY_ANY),
      Task(0, TASK_STUDY, 1, PRIORITY_REGULAR_STUDY, 1, FALSE, ENERGY_ANY),
      Task(0, TASK_BREAK, 2, PRIORITY_REGULAR_STUDY, 1, FALSE, ENERGY_ANY),
      Task(0, TASK_REVISION, 1, PRIORITY_ASSIGNMENT, 1, FALSE, ENERGY_PREFER_LOW),
      Task(0, TASK_UNIVERSITY, 2, PRIORITY_REGULAR_STUDY, 0, TRUE, ENERGY_ANY) }

FixedPool ==
    { FixedSlot(0, EMPTY), FixedSlot(1, 9), FixedSlot(16, EMPTY),
      FixedSlot(total_slots(NumDays), 9) }

ValidTaskLists ==
    {[i \in 1 .. Len(q) |-> [q[i] EXCEPT !.id = i]] : q \in ListsOf(TaskPool, MaxTasks)}

\* arbitrary tasks: repeated ids, the id -1, durations 0, -1 and INT_MAX; the
\* priorities are distinct and descending, and a request lists its tasks in the
\* order of the pool
AnyTaskPool ==
    << Task(1, TASK_UNIVERSITY, 1, 100, 0, TRUE, ENERGY_ANY),
       Task(1, TASK_BREAK, 1, PRIORITY_DUE_TODAY, 3, FALSE, ENERGY_ANY),
       Task(1, TASK_BREAK, 2, 85, 3, FALSE, ENERGY_ANY),
       Task(EMPTY, TASK_BREAK, 1, 75, 3, FALSE, ENERGY_ANY),
       Task(3, TASK_STUDY, 0 - 1, PRIORITY_ASSIGNMENT, 1, FALSE, ENERGY_ANY),
       Task(4, TASK_STUDY, INT_MAX, PRIORITY_REGULAR_STUDY, EMPTY, FALSE, ENERGY_ANY),
       Task(2, TASK_BREAK, 0, PRIORITY_FREE_TIME, EMPTY, FALSE, ENERGY_ANY) >>

AnyTaskLists ==
    {PickFrom(AnyTaskPool, I) :
        I \in {J \in SUBSET (1 .. Len(AnyTaskPool)) : Cardinality(J) <= MaxTasks}}

AnyFixedPool ==
    { FixedSlot(1, 1), FixedSlot(1, 7), FixedSlot(0, EMPTY),
      FixedSlot(total_slots(NumDays), 7) }

\* the arguments of one call: a task array with its length, or NULL, or a count
\* outside [0, MAX_TASKS]
Requests(lists) ==
    {[tasks |-> t, tasks_null |-> FALSE, num_tasks |-> Len(t)] : t \in lists}
    \cup {[tasks |-> << >>, tasks_null |-> TRUE, num_tasks |-> n] : n \in {0, 1}}
    \cup {[tasks |-> << >>, tasks_null |-> FALSE, num_tasks |-> n] :
             n \in {0 - 1, MAX_TASKS + 1}}

NoTimeline == [i \in {} |-> i]

\* optimize_schedule is called by another caller than main
NoInput == [wellformed |-> TRUE, tasks |-> << >>, fixed_slots |-> << >>]

InitOf(lists, fixedLists, faults) ==
    /\ \E r \in Requests(lists) :
          /\ tasks = r.tasks
          /\ tasks_null = r.tasks_null
          /\ num_tasks = r.num_tasks
    /\ fixed_slots \in fixedLists
    /\ alloc_fail \in faults
    /\ prev = << >>
    /\ pc = "call"
    /\ returned_null = FALSE
    /\ num_slots = 0
    /\ slots = NoTimeline
    /\ success = FALSE
    /\ error_message = << >>
    /\ sorted_tasks = << >>
    /\ placements = << >>
    /\ heap = [sorted |-> "none", placements |-> "none"]
    /\ stack = << >>
    /\ ret = "none"
    /\ oob = FALSE
    /\ explored = {}
    /\ revisited = FALSE
    /\ input_json = NoInput
    /\ exit_code = -1
    /\ out = << >>
    /\ err = << >>

\* the same with fixed-slot arrays of MaxFixed descriptors at most
InitWith(lists, fixedPool, faults) == InitOf(lists, ListsOf(fixedPool, MaxFixed), faults)

Init == InitWith(ValidTaskLists, FixedPool, {"none"})

InitAny == InitWith(AnyTaskLists, AnyFixedPool, {"none"})

(* ------------------------------------------------------------------ *)
(* optimize_schedule: prologue                                         *)
(* ------------------------------------------------------------------ *)
Frame(task_index) ==
    [task_index |-> task_index, phase |-> "entry", candidates |-> << >>, i |-> 0]

\* variant of the validation that forgets the upper limit
InvalidCount_no_upper(count) == count < 0

\* "Validate inputs"
InvalidCount(count) == count < 0 \/ count > MAX_TASKS

\* the characters of the decimal digits 0 .. 9
DigitChars == << "0", "1", "2", "3", "4", "5", "6", "7", "8", "9" >>

\* the decimal digits of n >= 0, most significant first
RECURSIVE Digits(_)
Digits(n) ==
    IF n < 10 THEN << DigitChars[n + 1] >>
    ELSE Digits(n \div 10) \o << DigitChars[(n % 10) + 1] >>

\* the conversion %d of snprintf: a sign for a negative number, then its digits
FormatInt(n) == IF n < 0 THEN << "-" >> \o Digits(0 - n) ELSE Digits(n)

\* variant of task_array_create whose malloc never fails
TaskArrayCreateFails_count_only(count) == count <= 0 \/ count > MAX_TASKS

\* variant of free that leaves the block allocated
Free_leak(status) == status

\* free(p) and task_array_free(p) on a pointer whose block has this status: NULL
\* ("none") is left alone, a live block is released, a released block is
\* released a second time
Free(status) ==
    IF status = "none" THEN "none"
    ELSE IF status = "live" THEN "freed"
    ELSE "double_free"

\* task_array_create(count) returns NULL
TaskArrayCreateFails(count) ==
    count <= 0 \/ count > MAX_TASKS \/ alloc_fail = "sorted"

\* variant in which qsort is given the caller's array
CallerTasksAfterSort_in_place(sorted) == sorted

\* the caller's array after "memcpy(sorted_tasks, tasks, ...)" and
\* "qsort(sorted_tasks, ...)": it is the source of the copy, and the sort
\* rearranges the copy
CallerTasksAfterSort(sorted) == tasks

\* "timeline->error_message[0] = '\\0'" of timeline_init: the empty message
EmptyMessage == << >>

\* the call returns without searching: timeline, success flag and message
Finished(sl, n_slots, ok, msg) ==
    /\ pc' = "done"
    /\ slots' = sl
    /\ num_slots' = n_slots
    /\ success' = ok
    /\ error_message' = msg
    /\ UNCHANGED << placements, stack, ret >>

\* the fixed-slot loop writes a cell outside the slots timeline_init set up
FixedWritesOutside(fresh) ==
    \E k \in 1 .. Len(fixed_slots) :
        /\ FixedInRange(fixed_slots[k].slot_index, total_slots(NumDays))
        /\ fixed_slots[k].slot_index \notin DOMAIN fresh

Call ==
    /\ pc = "call"
    /\ UNCHANGED << tasks_null, num_tasks, fixed_slots, alloc_fail, prev, history_vars,
                    process_vars >>
    /\ IF alloc_fail = "timeline"
       THEN \* timeline_create returned NULL
            /\ returned_null' = TRUE
            /\ heap' = heap
            /\ oob' = oob
            /\ sorted_tasks' = sorted_tasks
            /\ tasks' = tasks
            /\ Finished(slots, num_slots, success, error_message)
       ELSE
       /\ returned_null' = FALSE
       /\ LET fresh == timeline_init_slots(NumDays)
              n_slots == total_slots(NumDays)
              applied == ApplyFixedFrom(fresh, fixed_slots, 1)
          IN
          IF InvalidCount(num_tasks)
          THEN /\ heap' = heap
               /\ oob' = oob
               /\ sorted_tasks' = sorted_tasks
               /\ tasks' = tasks
               /\ Finished(fresh, n_slots, FALSE,
                           << "Invalid number of tasks: " >> \o FormatInt(num_tasks))
          ELSE IF tasks_null \/ num_tasks = 0
          THEN /\ heap' = heap
               /\ oob' = FixedWritesOutside(fresh)
               /\ sorted_tasks' = sorted_tasks
               /\ tasks' = tasks
               /\ Finished(applied, n_slots, TRUE, EmptyMessage)
          ELSE IF TaskArrayCreateFails(num_tasks)
          THEN /\ heap' = heap
               /\ oob' = FixedWritesOutside(fresh)
               /\ sorted_tasks' = sorted_tasks
               /\ tasks' = tasks
               /\ Finished(applied, n_slots, FALSE, << "Memory allocation failed" >>)
          ELSE IF alloc_fail = "placements"
          THEN \* the working copy was sorted, then freed
               /\ heap' = [sorted |-> Free("live"), placements |-> "none"]
               /\ oob' = FixedWritesOutside(fresh)
               /\ \E sorted \in QsortOutcomes(tasks) :
                      sorted_tasks' = sorted /\ tasks' = CallerTasksAfterSort(sorted)
               /\ Finished(applied, n_slots, FALSE, << "Memory allocation failed" >>)
          ELSE /\ \E sorted \in QsortOutcomes(tasks) :
                      sorted_tasks' = sorted /\ tasks' = CallerTasksAfterSort(sorted)
               /\ placements' = [k \in 1 .. num_tasks |-> EMPTY]
               /\ heap' = [sorted |-> "live", placements |-> "live"]
               /\ slots' = applied
               /\ num_slots' = n_slots
               /\ stack' = << Frame(0) >>
               /\ pc' = "search"
               /\ oob' = FixedWritesOutside(fresh)
               /\ success' = FALSE
               /\ error_message' = EmptyMessage
               /\ ret' = ret

(* ------------------------------------------------------------------ *)
(* backtrack                                                           *)
(* ------------------------------------------------------------------ *)
Top == stack[Len(stack)]

Pop == SubSeq(stack, 1, Len(stack) - 1)

\* the task of an activation record (tasks[task_index] of the code)
TaskOf(frame) == sorted_tasks[frame.task_index + 1]

\* variant of the base case that stops one task early
AllTasksPlaced_early(task_index) == task_index >= num_tasks - 1

\* variant of the test that skips no task
SkipsTask_never(task) == FALSE

\* "Skip fixed tasks - they're already placed"
SkipsTask(task) == task.is_fixed

\* "Base case: all tasks placed"
AllTasksPlaced(task_index) == task_index >= num_tasks

\* the outcomes of the signed additions of can_place_task for this task
OverflowCases(task) ==
    IF task.duration_slots > INT_MAX - num_slots THEN OverflowOutcomes ELSE {"exact"}

\* a node of the search tree: the task index and the starts recorded for the
\* tasks before it
Node(task_index) ==
    << task_index,
       SubSeq(placements, 1, IF task_index < num_tasks THEN task_index ELSE num_tasks) >>

\* entry of backtrack(timeline, tasks, num_tasks, task_index, placements) up to
\* the sorted candidate array
BtEnter ==
    /\ pc = "search" /\ ret = "none" /\ stack # << >> /\ Top.phase = "entry"
    /\ UNCHANGED << input_vars, process_vars, prev, pc, returned_null, num_slots, slots, success,
                    error_message, sorted_tasks, placements, heap >>
    /\ explored' = explored \cup {Node(Top.task_index)}
    /\ revisited' = (revisited \/ Node(Top.task_index) \in explored)
    /\ IF AllTasksPlaced(Top.task_index)
       THEN /\ stack' = Pop
            /\ ret' = "true"
            /\ oob' = oob
       ELSE IF SkipsTask(TaskOf(Top))
       THEN /\ stack' = [stack EXCEPT ![Len(stack)].phase = "skip"]
                            \o << Frame(Top.task_index + 1) >>
            /\ ret' = "none"
            /\ oob' = oob
       ELSE \E ovf \in OverflowCases(TaskOf(Top)) :
            /\ stack' = [stack EXCEPT
                            ![Len(stack)].phase = "loop",
                            ![Len(stack)].candidates =
                                SortedCandidates(slots, TaskOf(Top), ovf),
                            ![Len(stack)].i = 0]
            /\ ret' = "none"
            /\ oob' = oob

\* "Place task" and "Recurse" for candidates[i]
BtTry ==
    /\ pc = "search" /\ ret = "none" /\ stack # << >> /\ Top.phase = "loop"
    /\ Top.i < Len(Top.candidates)
    /\ LET slot == Top.candidates[Top.i + 1].slot IN
       /\ slots' = place_task(slots, TaskOf(Top), slot)
       /\ placements' = [placements EXCEPT ![Top.task_index + 1] = slot]
       /\ oob' = (oob \/ WritesOutside(TaskOf(Top), slot))
    /\ stack' = stack \o << Frame(Top.task_index + 1) >>
    /\ UNCHANGED << input_vars, process_vars, prev, pc, returned_null, num_slots, success,
                    error_message, sorted_tasks, heap, ret, history_vars >>

\* the candidate loop has run out: return false
BtExhausted ==
    /\ pc = "search" /\ ret = "none" /\ stack # << >> /\ Top.phase = "loop"
    /\ Top.i >= Len(Top.candidates)
    /\ stack' = Pop
    /\ ret' = "false"
    /\ UNCHANGED << input_vars, process_vars, prev, pc, returned_null, num_slots, slots, success,
                    error_message, sorted_tasks, placements, heap, oob, history_vars >>

\* the recursive call returned true: return true
BtChildTrue ==
    /\ pc = "search" /\ ret = "true" /\ stack # << >>
    /\ stack' = Pop
    /\ UNCHANGED << input_vars, process_vars, prev, pc, returned_null, num_slots, slots, success,
                    error_message, sorted_tasks, placements, heap, ret, oob,
                    history_vars >>

\* variant of the step of the try loop that stays on the same candidate
NextCandidate_stuck(i) == i

\* variant of the step of the loop that passes over a candidate
NextCandidate_skip(i) == i + 2

\* the step "i++" of the loop "Try each slot in order of score"
NextCandidate(i) == i + 1

\* the recursive call returned false: a fixed task returns false in turn, a
\* searched task undoes the placement ("Backtrack") and moves to the next candidate
BtChildFalse ==
    /\ pc = "search" /\ ret = "false" /\ stack # << >>
    /\ IF Top.phase = "skip"
       THEN /\ stack' = Pop
            /\ UNCHANGED << slots, placements, ret, oob >>
       ELSE LET slot == Top.candidates[Top.i + 1].slot IN
            /\ slots' = remove_task(slots, TaskOf(Top), slot)
            /\ placements' = [placements EXCEPT ![Top.task_index + 1] = EMPTY]
            /\ oob' = (oob \/ WritesOutside(TaskOf(Top), slot))
            /\ stack' = [stack EXCEPT ![Len(stack)].i = NextCandidate(Top.i)]
            /\ ret' = "none"
    /\ UNCHANGED << input_vars, process_vars, prev, pc, returned_null, num_slots, success,
                    error_message, sorted_tasks, heap, history_vars >>

(* ------------------------------------------------------------------ *)
(* optimize_schedule: epilogue                                         *)
(* ------------------------------------------------------------------ *)
\* variant of the epilogue that reports a failed search without a message
Return_no_message ==
    /\ pc = "search" /\ stack = << >> /\ ret # "none"
    /\ success' = (ret = "true")
    /\ error_message' = error_message
    /\ heap' = [sorted |-> Free(heap.sorted), placements |-> Free(heap.placements)]
    /\ pc' = "done"
    /\ ret' = "none"
    /\ UNCHANGED << input_vars, process_vars, prev, returned_null, num_slots, slots, sorted_tasks,
                    placements, stack, oob, history_vars >>

\* "found" decides success and the message; both working arrays are freed (their
\* last contents stay in sorted_tasks and placements as a record of the search)
Return ==
    /\ pc = "search" /\ stack = << >> /\ ret # "none"
    /\ IF ret = "true"
       THEN success' = TRUE /\ error_message' = error_message
       ELSE /\ success' = FALSE
            /\ error_message' =
                   << "NO_SOLUTION:", " Cannot find valid placement for all tasks" >>
    /\ heap' = [sorted |-> Free(heap.sorted), placements |-> Free(heap.placements)]
    /\ pc' = "done"
    /\ ret' = "none"
    /\ UNCHANGED << input_vars, process_vars, prev, returned_null, num_slots, slots, sorted_tasks,
                    placements, stack, oob, history_vars >>

\* the timeline as the caller sees it
Result ==
    [returned_null |-> returned_null, success |-> success,
     error_message |-> error_message, num_slots |-> num_slots, slots |-> slots]

\* the caller keeps the result and calls optimize_schedule again on the same input
CallAgain ==
    /\ pc = "done" /\ prev = << >>
    /\ prev' = << Result >>
    /\ pc' = "call"
    /\ returned_null' = FALSE
    /\ num_slots' = 0
    /\ slots' = NoTimeline
    /\ success' = FALSE
    /\ error_message' = << >>
    /\ sorted_tasks' = << >>
    /\ placements' = << >>
    /\ heap' = [sorted |-> "none", placements |-> "none"]
    /\ stack' = << >>
    /\ ret' = "none"
    /\ oob' = FALSE
    /\ explored' = {}
    /\ revisited' = FALSE
    /\ UNCHANGED << input_vars, process_vars >>

Next ==
    \/ Call
    \/ BtEnter
    \/ BtTry
    \/ BtExhausted
    \/ BtChildTrue
    \/ BtChildFalse
    \/ Return

Spec == Init /\ [][Next]_vars

SpecAny == InitAny /\ [][Next]_vars

\* well-formed and arbitrary requests together
InitAll == Init \/ InitAny

SpecAll == InitAll /\ [][Next]_vars

NextTwice == Next \/ CallAgain

SpecTwice == Init /\ [][NextTwice]_vars

\* requests for the runs that are followed to their end: a task that fits slots
\* 0 .. 2 and is tried first, a task that fits slot 0 only, a task that fits
\* anywhere, a fixed task
LiveTaskPool ==
    { Task(0, TASK_BREAK, 1, PRIORITY_DUE_TODAY, 3, FALSE, ENERGY_ANY),
      Task(0, TASK_STUDY, 1, PRIORITY_REGULAR_STUDY, 1, FALSE, ENERGY_ANY),
      Task(0, TASK_STUDY, 2, PRIORITY_FREE_TIME, EMPTY, FALSE, ENERGY_ANY),
      Task(0, TASK_UNIVERSITY, 2, PRIORITY_ASSIGNMENT, 0, TRUE, ENERGY_ANY) }

LiveTaskLists ==
    {[i \in 1 .. Len(q) |-> [q[i] EXCEPT !.id = i]] : q \in ListsOf(LiveTaskPool, MaxTasks)}

LiveFixedPool == { FixedSlot(0, EMPTY) }

InitLive == InitWith(LiveTaskLists, LiveFixedPool, {"none"})

\* requests of the documented scenarios: study and deep-work tasks without
\* deadline (one of them too long to start at slot 16), tasks with a deadline
\* they can meet (deadline 10, deadline equal to the duration, deadline equal to
\* the length of the timeline), tasks with a deadline shorter than their
\* duration, and a task that is tried before all of these but the long one;
\* the priorities put the tasks with the fewest feasible starts first
ScenarioPool ==
    { Task(0, TASK_STUDY, 2, PRIORITY_FREE_TIME, EMPTY, FALSE, ENERGY_ANY),
      Task(0, TASK_DEEP_WORK, 1, PRIORITY_FREE_TIME, EMPTY, FALSE, ENERGY_ANY),
      Task(0, TASK_STUDY, total_slots(NumDays) - 8, 95, EMPTY, FALSE, ENERGY_ANY),
      Task(0, TASK_STUDY, 2, PRIORITY_ASSIGNMENT, 10, FALSE, ENERGY_ANY),
      Task(0, TASK_BREAK, 2, 65, 2, FALSE, ENERGY_ANY),
      Task(0, TASK_PRACTICE, 1, 55, total_slots(NumDays), FALSE, ENERGY_ANY),
      Task(0, TASK_STUDY, 10, 70, 5, FALSE, ENERGY_ANY),
      Task(0, TASK_BREAK, 1, 70, 0, FALSE, ENERGY_ANY),
      Task(0, TASK_BREAK, 1, PRIORITY_DUE_TODAY, 3, FALSE, ENERGY_ANY) }

ScenarioTaskLists ==
    {[i \in 1 .. Len(q) |-> [q[i] EXCEPT !.id = i]] : q \in ListsOf(ScenarioPool, MaxTasks)}

ScenarioFixedPool == { FixedSlot(0, EMPTY), FixedSlot(16, 9) }

InitScenarios == InitWith(ScenarioTaskLists, ScenarioFixedPool, {"none"})

SpecScenarios == InitScenarios /\ [][Next]_vars

\* requests of the documented cases: tasks of one slot without deadline, two
\* tasks that fill all of the timeline but eight slots each, tried before them,
\* and a study task of two slots that is tried first of all
CasePool ==
    { Task(0, TASK_STUDY, 1, PRIORITY_REGULAR_STUDY, EMPTY, FALSE, ENERGY_ANY),
      Task(0, TASK_DEEP_WORK, 1, PRIORITY_REGULAR_STUDY, EMPTY, FALSE, ENERGY_ANY),
      Task(0, TASK_STUDY, total_slots(NumDays) - 8, 95, EMPTY, FALSE, ENERGY_ANY),
      Task(0, TASK_DEEP_WORK, total_slots(NumDays) - 8, 96, EMPTY, FALSE, ENERGY_ANY),
      Task(0, TASK_STUDY, 2, 99, EMPTY, FALSE, ENERGY_ANY) }

CaseTaskLists ==
    {[i \in 1 .. Len(q) |-> [q[i] EXCEPT !.id = i]] : q \in ListsOf(CasePool, MaxTasks)}

CaseFixedPool == { FixedSlot(16, EMPTY), FixedSlot(17, 9) }

InitCases == InitWith(CaseTaskLists, CaseFixedPool, {"none"})

SpecCases == InitCases /\ [][Next]_vars

\* the allocation of the call that fails, if any
\* requests of one task of two slots, of every type and every preferred energy,
\* and the requests of the runs that are followed to their end
ScoreTaskPool ==
    {Task(1, type, 2, PRIORITY_REGULAR_STUDY, EMPTY, FALSE, preferred_energy) :
        type \in 0 .. TASK_TYPE_COUNT - 1,
        preferred_energy \in ENERGY_ANY .. ENERGY_PREFER_PEAK}

ScoreTaskLists == {<< t >> : t \in ScoreTaskPool} \cup LiveTaskLists

InitScore == InitWith(ScoreTaskLists, LiveFixedPool, {"none"})

SpecScore == InitScore /\ [][Next]_vars

\* fixed-slot arrays of one descriptor more than MaxFixed: two descriptors of
\* slot 3 with different ids, one below the timeline and one past its end
FixedCasePool ==
    { FixedSlot(3, 7), FixedSlot(3, 8), FixedSlot(0 - 1, 5),
      FixedSlot(total_slots(NumDays), 5) }

InitFixed == InitOf(LiveTaskLists, ListsOf(FixedCasePool, MaxFixed + 1), {"none"})

SpecFixed == InitFixed /\ [][Next]_vars

AllocFaults == {"none", "timeline", "sorted", "placements"}

InitFaults == InitWith(LiveTaskLists, LiveFixedPool, AllocFaults)

SpecFaults == InitFaults /\ [][Next]_vars

\* optimize_schedule is a sequential function: a step that can be taken is taken
SpecLive == InitLive /\ [][Next]_vars /\ WF_vars(Next)

(* ------------------------------------------------------------------ *)
(* JSON output (json_output.c)                                         *)
(* ------------------------------------------------------------------ *)
\* A C string is a sequence of pieces, each a TLA+ string; a number is one
\* piece per character. The text of a buffer is the sequence of its pieces.
INITIAL_BUFFER_SIZE == 4096

BUFFER_GROW_FACTOR == 2

\* strlen(str)
RECURSIVE strlen(_)
strlen(str) == IF str = << >> THEN 0 ELSE Len(Head(str)) + strlen(Tail(str))

\* json_escape_string(str) for a string without quote, backslash or control
\* character (none of the messages of optimize_schedule has one): the string
\* between two quotes
json_escape_string(str) == << "\"" >> \o str \o << "\"" >>

\* buffer_create()
buffer_create == [data |-> << >>, size |-> 0, capacity |-> INITIAL_BUFFER_SIZE]

\* "while (new_capacity < required) new_capacity *= BUFFER_GROW_FACTOR"
RECURSIVE GrownCapacity(_, _)
GrownCapacity(new_capacity, required) ==
    IF new_capacity < required
    THEN GrownCapacity(new_capacity * BUFFER_GROW_FACTOR, required)
    ELSE new_capacity

\* buffer_append(buf, str): the buffer afterwards; when the buffer has to grow
\* and realloc fails the call returns -1 and leaves the buffer as it is
buffer_append(buf, str, realloc_fails) ==
    LET required == buf.size + strlen(str) + 1 IN
    IF required > buf.capacity
    THEN IF realloc_fails THEN buf
         ELSE [data |-> buf.data \o str,
               size |-> buf.size + strlen(str),
               capacity |-> GrownCapacity(buf.capacity * BUFFER_GROW_FACTOR, required)]
    ELSE [buf EXCEPT !.data = buf.data \o str, !.size = buf.size + strlen(str)]

\* the appends of the strings strs[lo], ..., strs[hi] in this order (the return
\* value of buffer_append is not looked at): the first half of them, then the
\* second half on the buffer the first half leaves
RECURSIVE AppendAll(_, _, _, _, _)
AppendAll(buf, strs, lo, hi, realloc_fails) ==
    IF lo > hi THEN buf
    ELSE IF lo = hi
    THEN CHOOSE r \in {buffer_append(b, strs[k], realloc_fails) : b \in {buf}, k \in {lo}} : TRUE
    ELSE CHOOSE r \in
            {AppendAll(b, strs, mid + 1, h, realloc_fails) :
                b \in {AppendAll(buf, strs, lo, (lo + hi) \div 2, realloc_fails)},
                mid \in {(lo + hi) \div 2}, h \in {hi}} : TRUE

\* variant of the text of a boolean that writes it as a number
BoolText_numeric(b) == IF b THEN "1" ELSE "0"

\* 'x ? "true" : "false"'
BoolText(b) == IF b THEN "true" ELSE "false"

\* the strings the body of the slot loop appends for slot i
SlotStrings(timeline, i) ==
    LET slot == timeline.slots[i] IN
    << << "    {\n" >>,
       << "      \"slot_index\": " >>, FormatInt(slot.slot_index), << ",\n" >>,
       << "      \"task_id\": " >>, FormatInt(slot.task_id), << ",\n" >>,
       << "      \"energy_level\": " >>, FormatInt(slot.energy_level), << ",\n" >>,
       << "      \"is_fixed\": " >>, << BoolText(slot.is_fixed) >>, << "\n" >>,
       << "    }" >> >>
    \o (IF i < timeline.num_slots - 1 THEN << << "," >> >> ELSE << >>)
    \o << << "\n" >> >>

\* the strings the slot loop appends for the slots lo, ..., hi
RECURSIVE SlotsStrings(_, _, _)
SlotsStrings(timeline, lo, hi) ==
    IF lo > hi THEN << >>
    ELSE IF lo = hi THEN SlotStrings(timeline, lo)
    ELSE SlotsStrings(timeline, lo, (lo + hi) \div 2)
            \o SlotsStrings(timeline, (lo + hi) \div 2 + 1, hi)

\* the strings timeline_to_json appends, in order; when json_escape_string
\* returns NULL the message is written as ""
JsonStrings(timeline, escape_fails) ==
    << << "{\n" >>,
       << "  \"success\": " >>, << BoolText(timeline.success) >>, << ",\n" >>,
       << "  \"error_message\": " >>,
       IF escape_fails THEN << "\"\"" >> ELSE json_escape_string(timeline.error_message),
       << ",\n" >>,
       << "  \"num_slots\": " >>, FormatInt(timeline.num_slots), << ",\n" >>,
       << "  \"slots\": [\n" >> >>
    \o SlotsStrings(timeline, 0, timeline.num_slots - 1)
    \o << << "  ]\n" >>, << "}\n" >> >>

\* timeline_to_json(timeline) for a timeline that is not NULL and a buffer that
\* buffer_create could allocate: the text of the buffer it detaches
timeline_to_json(timeline, escape_fails, realloc_fails) ==
    LET strs == JsonStrings(timeline, escape_fails) IN
    AppendAll(buffer_create, strs, 1, Len(strs), realloc_fails).data

(* ------------------------------------------------------------------ *)
(* The process (main.c)                                                *)
(* ------------------------------------------------------------------ *)
\* the allocations of one run of the process, in the order they are made: the
\* input buffer, the task array and the fixed-slot array of parse_json_input,
\* the three of optimize_schedule, the buffer of timeline_to_json, the escaped
\* message, and the growing of the buffer (every realloc of the run fails)
MainAllocFaults ==
    {"none", "input", "parse_tasks", "parse_fixed", "timeline", "sorted", "placements",
     "json_buffer", "json_escape", "json_grow"}

\* the lines main writes to standard error
InputAllocLine == "{\"success\": false, \"error_message\": \"Memory allocation failed\"}\n"

ParseFailedLine == "{\"success\": false, \"error_message\": \"Failed to parse input JSON\"}\n"

OptimizationFailedLine == "{\"success\": false, \"error_message\": \"Optimization failed\"}\n"

SerializationFailedLine ==
    "{\"success\": false, \"error_message\": \"JSON serialization failed\"}\n"

\* what standard input holds: a document with a tasks array and a fixed_slots
\* array, or a text in which find_key finds neither key
InputDocument(t, f) == [wellformed |-> TRUE, tasks |-> t, fixed_slots |-> f]

NotJson == [wellformed |-> FALSE, tasks |-> << >>, fixed_slots |-> << >>]

MainFixedPool == { FixedSlot(0, EMPTY), FixedSlot(2, 105) }

\* a tasks array of MAX_TASKS + 1 objects and a fixed_slots array of
\* MAX_SLOTS + 1 objects
OverlongTasks ==
    [k \in 1 .. MAX_TASKS + 1 |->
        Task(k, TASK_STUDY, 1, PRIORITY_REGULAR_STUDY, EMPTY, FALSE, ENERGY_ANY)]

OverlongFixed == [k \in 1 .. MAX_SLOTS + 1 |-> FixedSlot(2, 105)]

OverlongInputs ==
    {InputDocument(OverlongTasks, f) : f \in ListsOf(MainFixedPool, MaxFixed)}
        \cup {InputDocument(t, OverlongFixed) : t \in {<< >>, OverlongTasks}}

MainInputs ==
    {InputDocument(t, f) : t \in LiveTaskLists, f \in ListsOf(MainFixedPool, MaxFixed)}
        \cup OverlongInputs \cup {NotJson}

\* parse_json_input returns -1: an array it has to allocate cannot be allocated
\* (an array is allocated for a count in 1 .. MAX_TASKS or 1 .. MAX_SLOTS)
ParseFails ==
    \/ /\ alloc_fail = "parse_tasks"
       /\ Len(input_json.tasks) > 0 /\ Len(input_json.tasks) <= MAX_TASKS
    \/ /\ alloc_fail = "parse_fixed"
       /\ Len(input_json.fixed_slots) > 0 /\ Len(input_json.fixed_slots) <= MAX_SLOTS

\* variant of the guard on the tasks array without the upper limit
ParsedTasks_no_upper ==
    IF Len(input_json.tasks) > 0 THEN input_json.tasks ELSE << >>

\* *tasks and *num_tasks after parse_json_input returned 0
ParsedTasks ==
    IF Len(input_json.tasks) > 0 /\ Len(input_json.tasks) <= MAX_TASKS
    THEN input_json.tasks ELSE << >>

\* *fixed_slots and *num_fixed after parse_json_input returned 0
ParsedFixed ==
    IF Len(input_json.fixed_slots) > 0 /\ Len(input_json.fixed_slots) <= MAX_SLOTS
    THEN input_json.fixed_slots ELSE << >>

\* main ends with the line on standard error and the exit code 1
ExitWithLine(line) ==
    /\ err' = Append(err, line)
    /\ out' = out
    /\ exit_code' = 1
    /\ pc' = "exited"

\* main up to the call of optimize_schedule
MainParse ==
    /\ pc = "main"
    /\ UNCHANGED << alloc_fail, prev, returned_null, num_slots, slots, success,
                    error_message, sorted_tasks, placements, heap, stack, ret, oob,
                    history_vars, input_json >>
    /\ IF alloc_fail = "input"
       THEN ExitWithLine(InputAllocLine)
               /\ UNCHANGED << tasks, tasks_null, num_tasks, fixed_slots >>
       ELSE IF ParseFails
       THEN ExitWithLine(ParseFailedLine)
               /\ UNCHANGED << tasks, tasks_null, num_tasks, fixed_slots >>
       ELSE /\ tasks' = ParsedTasks
            /\ tasks_null' = (ParsedTasks = << >>)
            /\ num_tasks' = Len(ParsedTasks)
            /\ fixed_slots' = ParsedFixed
            /\ pc' = "call"
            /\ UNCHANGED << exit_code, out, err >>

\* the Timeline optimize_schedule returned
ReturnedTimeline ==
    [success |-> success, error_message |-> error_message,
     num_slots |-> num_slots, slots |-> slots]

\* main after the call of optimize_schedule
MainOutput ==
    /\ pc = "done"
    /\ UNCHANGED << input_vars, prev, returned_null, num_slots, slots, success,
                    error_message, sorted_tasks, placements, heap, stack, ret, oob,
                    history_vars, input_json >>
    /\ IF returned_null
       THEN ExitWithLine(OptimizationFailedLine)
       ELSE IF alloc_fail = "json_buffer"
       THEN ExitWithLine(SerializationFailedLine)
       ELSE /\ out' = timeline_to_json(ReturnedTimeline, alloc_fail = "json_escape",
                                       alloc_fail = "json_grow")
            /\ err' = err
            /\ exit_code' = 0
            /\ pc' = "exited"

InitMain ==
    /\ input_json \in MainInputs
    /\ alloc_fail \in MainAllocFaults
    /\ pc = "main"
    /\ tasks = << >>
    /\ tasks_null = TRUE
    /\ num_tasks = 0
    /\ fixed_slots = << >>
    /\ prev = << >>
    /\ returned_null = FALSE
    /\ num_slots = 0
    /\ slots = NoTimeline
    /\ success = FALSE
    /\ error_message = << >>
    /\ sorted_tasks = << >>
    /\ placements = << >>
    /\ heap = [sorted |-> "none", placements |-> "none"]
    /\ stack = << >>
    /\ ret = "none"
    /\ oob = FALSE
    /\ explored = {}
    /\ revisited = FALSE
    /\ exit_code = -1
    /\ out = << >>
    /\ err = << >>

NextMain == MainParse \/ Next \/ MainOutput

SpecMain == InitMain /\ [][NextMain]_vars

(* ------------------------------------------------------------------ *)
(* Vocabulary of the properties                                        *)
(* ------------------------------------------------------------------ *)
Done == pc = "done"

\* a timeline was returned with success = true after a search over a task list
Solved == Done /\ success /\ ~tasks_null /\ num_tasks > 0

IsNoSolution == error_message # << >> /\ error_message[1] = "NO_SOLUTION:"

\* indices (in processing order) of the tasks the solver searches for
Searched == {k \in 1 .. Len(sorted_tasks) : ~sorted_tasks[k].is_fixed}

\* the slots [start, start + duration_slots) of the task at index k
RunOf(k) ==
    {x \in DOMAIN slots :
        x >= placements[k] /\ x - placements[k] < sorted_tasks[k].duration_slots}

SlotsBearing(id) == {x \in DOMAIN slots : slots[x].task_id = id}

\* slot indices named by an in-range fixed-slot descriptor
NamedFixed ==
    {fixed_slots[k].slot_index : k \in 1 .. Len(fixed_slots)} \cap (0 .. num_slots - 1)

\* the tasks the solver searches for have distinct ids >= 0 and durations >= 1
SearchedWellFormed ==
    /\ \A k \in Searched :
          sorted_tasks[k].id >= 0 /\ sorted_tasks[k].duration_slots >= 1
    /\ \A k, m \in Searched : k # m => sorted_tasks[k].id # sorted_tasks[m].id

\* the timeline with the fixed slots only
OnlyFixedAssigned ==
    \A x \in DOMAIN slots :
        x \notin NamedFixed => slots[x].task_id = EMPTY /\ ~slots[x].is_fixed

(* ------------------------------------------------------------------ *)
(* C1                                                                  *)
(* ------------------------------------------------------------------ *)
NoFixedInput ==
    /\ Len(fixed_slots) = 0
    /\ Searched = 1 .. Len(sorted_tasks)
    /\ SearchedWellFormed

\* C1: with no fixed-slot descriptors and non-fixed tasks of distinct ids >= 0 and
\* durations >= 1, a timeline returned with success = true carries each task id on
\* exactly one contiguous run of exactly duration_slots slots (the run starting at
\* the task's placement), and the runs of two distinct tasks are disjoint.
C1_NoOverlapContiguity ==
    (Solved /\ NoFixedInput) =>
        /\ \A k \in Searched :
              /\ placements[k] \in DOMAIN slots
              /\ Cardinality(SlotsBearing(sorted_tasks[k].id))
                    = sorted_tasks[k].duration_slots
              /\ SlotsBearing(sorted_tasks[k].id) = RunOf(k)
        /\ \A k, m \in Searched : k # m => RunOf(k) \cap RunOf(m) = {}

C1_Witness ==
    /\ Solved /\ NoFixedInput
    /\ Len(sorted_tasks) = 2
    /\ \E k \in Searched : sorted_tasks[k].duration_slots = 2
    /\ \E k, m \in Searched : placements[k] + sorted_tasks[k].duration_slots = placements[m]

(* ------------------------------------------------------------------ *)
(* C2                                                                  *)
(* ------------------------------------------------------------------ *)
FixedIndicesDistinct ==
    \A a, b \in 1 .. Len(fixed_slots) :
        (a # b /\ fixed_slots[a].slot_index \in NamedFixed)
            => fixed_slots[a].slot_index # fixed_slots[b].slot_index

FixedSlotsKept ==
    \A k \in 1 .. Len(fixed_slots) :
        fixed_slots[k].slot_index \in NamedFixed =>
            /\ slots[fixed_slots[k].slot_index].is_fixed
            /\ slots[fixed_slots[k].slot_index].task_id = fixed_slots[k].task_id

\* C2: when the in-range fixed-slot descriptors have pairwise distinct slot_index,
\* each of their slots has is_fixed = true and the descriptor's task_id in every
\* state of the search and in the timeline returned with success or NO_SOLUTION.
C2_FixedSlotsPreserved ==
    ((pc = "search" \/ (Done /\ (success \/ IsNoSolution))) /\ FixedIndicesDistinct)
        => FixedSlotsKept

C2_Witness ==
    /\ pc = "search" /\ FixedIndicesDistinct
    /\ \E k \in 1 .. Len(fixed_slots) :
          fixed_slots[k].slot_index \in NamedFixed /\ fixed_slots[k].task_id = EMPTY
    /\ \E k \in Searched : placements[k] # EMPTY /\ sorted_tasks[k].duration_slots >= 1

(* ------------------------------------------------------------------ *)
(* C3                                                                  *)
(* ------------------------------------------------------------------ *)
\* C3: in a timeline returned with success = true every non-fixed task has a
\* start; with deadline_slot >= 0 the start satisfies start + duration_slots <=
\* deadline_slot, with deadline_slot = -1 only start + duration_slots <= num_slots.
C3_DeadlineCompliance ==
    Solved =>
        \A k \in Searched :
            /\ placements[k] >= 0
            /\ sorted_tasks[k].duration_slots <= num_slots - placements[k]
            /\ sorted_tasks[k].deadline_slot >= 0 =>
                  sorted_tasks[k].duration_slots
                      <= sorted_tasks[k].deadline_slot - placements[k]

C3_Witness ==
    /\ Solved
    /\ \E k \in Searched :
          /\ sorted_tasks[k].deadline_slot >= 0
          /\ sorted_tasks[k].duration_slots >= 1
          /\ placements[k] + sorted_tasks[k].duration_slots = sorted_tasks[k].deadline_slot
    /\ \E k \in Searched :
          /\ sorted_tasks[k].deadline_slot = EMPTY
          /\ sorted_tasks[k].duration_slots >= 1
          /\ placements[k] > 3

(* ------------------------------------------------------------------ *)
(* C4                                                                  *)
(* ------------------------------------------------------------------ *)
ValidInput ==
    /\ ~tasks_null
    /\ num_tasks > 0 /\ num_tasks <= MAX_TASKS /\ num_tasks = Len(tasks)
    /\ \A i \in 1 .. Len(tasks) : tasks[i].duration_slots >= 1 /\ tasks[i].id >= 0
    /\ \A i, j \in 1 .. Len(tasks) : i # j => tasks[i].id # tasks[j].id

\* the starts that are in range, meet the deadline and touch no fixed slot
StartsAllowed(t) ==
    {st \in 0 .. num_slots - 1 :
        /\ st + t.duration_slots <= num_slots
        /\ t.deadline_slot >= 0 => st + t.duration_slots <= t.deadline_slot
        /\ \A x \in st .. st + t.duration_slots - 1 : x \notin NamedFixed}

\* some choice of allowed starts for the non-fixed tasks i .. of the request keeps
\* their ranges disjoint from each other and from the slots in occupied
RECURSIVE AssignmentExists(_, _)
AssignmentExists(i, occupied) ==
    IF i > Len(tasks) THEN TRUE
    ELSE IF tasks[i].is_fixed THEN AssignmentExists(i + 1, occupied)
    ELSE \E st \in StartsAllowed(tasks[i]) :
            LET run == st .. st + tasks[i].duration_slots - 1 IN
            run \cap occupied = {} /\ AssignmentExists(i + 1, occupied \cup run)

\* C4: for a valid input, a timeline returned with success = false means that no
\* assignment of starts exists that is in range, meets every deadline, avoids the
\* fixed slots and keeps the ranges disjoint (if one exists, success = true).
C4_Completeness ==
    (Done /\ ValidInput /\ ~returned_null /\ ~success) => ~AssignmentExists(1, {})

\* the first searched task is not at the first candidate it had on the timeline
\* holding the fixed slots only: the search went back on its first choice
C4_Witness ==
    /\ Done /\ ValidInput /\ success /\ AssignmentExists(1, {})
    /\ \E k \in Searched :
          /\ \A m \in Searched : k <= m
          /\ LET bare == [x \in DOMAIN slots |->
                            IF x \in NamedFixed THEN slots[x]
                            ELSE [slots[x] EXCEPT !.task_id = EMPTY]]
             IN placements[k] # SortedCandidates(bare, sorted_tasks[k], "exact")[1].slot

(* ------------------------------------------------------------------ *)
(* C5                                                                  *)
(* ------------------------------------------------------------------ *)
\* C5: when success = true is returned for a non-empty task list, the working copy
\* holds every task of the request, and every non-fixed task with id >= 0 and
\* duration_slots >= 1 has a start whose duration_slots slots are in the timeline,
\* not fixed, and bear its id.
C5_EveryTaskPlaced ==
    Solved =>
        /\ Len(sorted_tasks) = Len(tasks)
        /\ \A i \in 1 .. Len(tasks) : \E k \in 1 .. Len(sorted_tasks) :
              sorted_tasks[k] = tasks[i]
        /\ \A k \in Searched :
              (sorted_tasks[k].id >= 0 /\ sorted_tasks[k].duration_slots >= 1) =>
                  /\ placements[k] >= 0
                  /\ Cardinality(RunOf(k)) = sorted_tasks[k].duration_slots
                  /\ \A x \in RunOf(k) :
                        slots[x].task_id = sorted_tasks[k].id /\ ~slots[x].is_fixed

C5_Witness ==
    /\ Solved
    /\ Cardinality(Searched) = 2
    /\ \A k \in Searched : sorted_tasks[k].id >= 0 /\ sorted_tasks[k].duration_slots >= 1

(* ------------------------------------------------------------------ *)
(* C6                                                                  *)
(* ------------------------------------------------------------------ *)
\* the outermost backtrack call has returned false
SearchExhausted == pc = "search" /\ stack = << >> /\ ret = "false"

\* C6: when the search is exhausted only the fixed slots carry an assignment, and
\* the timeline is then returned like that with success = false and a message
\* that begins with NO_SOLUTION: (a failed return after a search is nothing else).
C6_NoSolutionOutcome ==
    /\ SearchExhausted => OnlyFixedAssigned
    /\ (Done /\ heap.placements = "freed" /\ ~success) =>
          IsNoSolution /\ OnlyFixedAssigned
    /\ (Done /\ IsNoSolution) => (~success /\ heap.placements = "freed")

\* a NO_SOLUTION return where the first searched task, of two slots or more, had
\* a candidate: it was placed and taken back
C6_Witness ==
    /\ Done /\ IsNoSolution /\ NamedFixed # {}
    /\ \E k \in Searched :
          /\ \A m \in Searched : k <= m
          /\ sorted_tasks[k].duration_slots >= 2
          /\ Len(CollectCandidates(slots, sorted_tasks[k], "exact")) > 0

(* ------------------------------------------------------------------ *)
(* C7                                                                  *)
(* ------------------------------------------------------------------ *)
\* the task at index k sits on exactly its run, and the slots next to the run
\* are outside the timeline, empty or bear another id
Contiguous(k) ==
    /\ placements[k] >= 0
    /\ Cardinality(RunOf(k)) = sorted_tasks[k].duration_slots
    /\ \A x \in RunOf(k) : slots[x].task_id = sorted_tasks[k].id
    /\ \A x \in {placements[k] - 1, placements[k] + sorted_tasks[k].duration_slots} :
          x \in DOMAIN slots => slots[x].task_id # sorted_tasks[k].id

NoFixedCarriesSearchedId ==
    \A f \in 1 .. Len(fixed_slots) :
        fixed_slots[f].slot_index \in NamedFixed =>
            \A k \in Searched : sorted_tasks[k].id # fixed_slots[f].task_id

\* C7 as stated: whatever task_id the in-range fixed-slot descriptors carry, in a
\* timeline returned with success = true every non-fixed task (distinct ids >= 0,
\* durations >= 1) occupies exactly its run and is bordered by other ids.
C7_ContiguityAnyFixed ==
    (Solved /\ SearchedWellFormed) => \A k \in Searched : Contiguous(k)

\* C7 amended: the same, for inputs in which no in-range fixed-slot descriptor
\* carries the id of a non-fixed task.
C7_ContiguityForeignFixed ==
    (Solved /\ SearchedWellFormed /\ NoFixedCarriesSearchedId)
        => \A k \in Searched : Contiguous(k)

C7_Witness ==
    /\ Solved /\ SearchedWellFormed /\ NoFixedCarriesSearchedId
    /\ \E f \in 1 .. Len(fixed_slots) :
          /\ fixed_slots[f].slot_index \in NamedFixed
          /\ fixed_slots[f].task_id >= 0
          /\ \E k \in Searched :
                placements[k] + sorted_tasks[k].duration_slots = fixed_slots[f].slot_index

(* ------------------------------------------------------------------ *)
(* C8                                                                  *)
(* ------------------------------------------------------------------ *)
\* the top activation record is about to build the candidates of a searched task
AboutToCollect ==
    /\ pc = "search" /\ ret = "none" /\ stack # << >> /\ Top.phase = "entry"
    /\ ~AllTasksPlaced(Top.task_index)
    /\ ~TaskOf(Top).is_fixed

\* C8: every candidate and every start recorded in placements[] satisfies 0 <=
\* start and start + duration_slots <= num_slots; no slot index outside
\* [0, num_slots) is written (fixed-slot loop, place_task, remove_task) or read
\* (can_place_task, for either outcome of an overflowing addition); no candidate
\* array is longer than num_slots, which is at most MAX_SLOTS.
C8_InRange ==
    /\ ~oob
    /\ num_slots <= MAX_SLOTS
    /\ \A d \in 1 .. Len(stack) :
          /\ Len(stack[d].candidates) <= num_slots
          /\ \A c \in 1 .. Len(stack[d].candidates) :
                /\ stack[d].candidates[c].slot >= 0
                /\ TaskOf(stack[d]).duration_slots
                      <= num_slots - stack[d].candidates[c].slot
    /\ \A k \in 1 .. Len(placements) :
          placements[k] # EMPTY =>
              /\ placements[k] >= 0
              /\ sorted_tasks[k].duration_slots <= num_slots - placements[k]
    /\ AboutToCollect =>
          \A ovf \in OverflowCases(TaskOf(Top)) : \A st \in 0 .. LastLoopSlot :
              \A x \in Dereferenced(slots, TaskOf(Top), st, ovf) :
                  x >= 0 /\ x < num_slots

\* a task is placed and a later search node holds a candidate array as long as
\* the timeline
C8_Witness ==
    /\ pc = "search"
    /\ \E d \in 1 .. Len(stack) : Len(stack[d].candidates) = num_slots
    /\ \E k \in Searched : placements[k] # EMPTY /\ sorted_tasks[k].duration_slots >= 1

(* ------------------------------------------------------------------ *)
(* C9                                                                  *)
(* ------------------------------------------------------------------ *)
\* C9: a second call of optimize_schedule on the same input returns a timeline
\* identical to the first in success, error_message, num_slots and every slot.
C9_Deterministic == (Done /\ prev # << >>) => Result = prev[1]

(* ------------------------------------------------------------------ *)
(* C10                                                                 *)
(* ------------------------------------------------------------------ *)
\* s lists the request by descending priority, equal priorities in input order
IsStableOrder(s) ==
    /\ Len(s) = Len(tasks)
    /\ \E p \in Permutations_of(Len(tasks)) :
          /\ \A k \in 1 .. Len(tasks) : s[k] = tasks[p[k]]
          /\ \A k, m \in 1 .. Len(tasks) :
                k < m => \/ tasks[p[k]].priority > tasks[p[m]].priority
                         \/ /\ tasks[p[k]].priority = tasks[p[m]].priority
                            /\ p[k] < p[m]

\* C10: the solver processes the tasks by descending priority, and tasks of equal
\* priority in their input order.
C10_StableProcessingOrder == heap.placements # "none" => IsStableOrder(sorted_tasks)

(* ------------------------------------------------------------------ *)
(* C11                                                                 *)
(* ------------------------------------------------------------------ *)
\* the activation records are those of task indices 0, 1, 2, ... in order, and
\* the deepest is that of the base case, task index num_tasks
DepthBounded ==
    /\ Len(stack) <= num_tasks + 1
    /\ \A k \in 1 .. Len(stack) : stack[k].task_index = k - 1

\* a node holds at most num_slots candidates, no start slot twice, and its
\* loop index never passes their number
CandidatesBounded ==
    \A k \in 1 .. Len(stack) :
        LET c == stack[k].candidates IN
        /\ Len(c) <= num_slots
        /\ \A a, b \in 1 .. Len(c) : a # b => c[a].slot # c[b].slot
        /\ stack[k].i >= 0 /\ stack[k].i <= Len(c)

SearchBounded ==
    pc = "search" => DepthBounded /\ CandidatesBounded /\ ~revisited

\* C11: for every input with 0 <= num_tasks <= MAX_TASKS the search terminates:
\* the call eventually returns; meanwhile the recursion is never deeper than
\* num_tasks calls below the first one, a node holds at most num_slots
\* candidates and tries each at most once, and no node (task index with the
\* placements of the tasks before it) is entered twice.
C11_SearchTerminates == [](SearchBounded /\ (Done => ~revisited)) /\ <>Done

\* a search that went num_tasks deep, undid a placement and returned
C11_Witness ==
    /\ Done /\ ~tasks_null /\ num_tasks >= 2
    /\ heap.placements = "freed"
    /\ \E n \in explored : n[1] = num_tasks
    /\ Cardinality({n \in explored : n[1] = 1}) >= 2

(* ------------------------------------------------------------------ *)
(* C12                                                                 *)
(* ------------------------------------------------------------------ *)
\* the number a sequence of decimal digits denotes
RECURSIVE DigitsValue(_)
DigitsValue(d) ==
    IF d = << >> THEN 0
    ELSE 10 * DigitsValue(SubSeq(d, 1, Len(d) - 1))
            + (CHOOSE k \in 0 .. 9 : DigitChars[k + 1] = d[Len(d)])

\* the number a decimal numeral with an optional sign denotes
NumeralValue(d) ==
    IF d # << >> /\ d[1] = "-" THEN 0 - DigitsValue(Tail(d)) ELSE DigitsValue(d)

\* no working array was allocated and backtrack was never entered
NoSearch ==
    /\ heap = [sorted |-> "none", placements |-> "none"]
    /\ placements = << >> /\ stack = << >> /\ explored = {}

\* C12: if num_tasks < 0 or num_tasks > 500, optimize_schedule performs no
\* search and returns a timeline with success = false whose error_message
\* holds the offending count in decimal.
C12_InvalidCount ==
    (Done /\ (num_tasks < 0 \/ num_tasks > 500)) =>
        /\ ~returned_null /\ ~success /\ NoSearch
        /\ Len(error_message) >= 2
        /\ error_message[1] = "Invalid number of tasks: "
        /\ NumeralValue(Tail(error_message)) = num_tasks

\* the call with num_tasks = 501 has returned with the message that ends in 5 0 1
C12_Witness ==
    /\ Done /\ num_tasks = 501 /\ ~success
    /\ Tail(error_message) = << "5", "0", "1" >>

(* ------------------------------------------------------------------ *)
(* C13                                                                 *)
(* ------------------------------------------------------------------ *)
\* the descriptors of the request that name slot x
DescriptorsOf(x) == {k \in 1 .. Len(fixed_slots) : fixed_slots[k].slot_index = x}

\* slot x is as the descriptors leave it: untouched when none names it, fixed
\* with the id of the last descriptor that names it otherwise
AsDescribed(x) ==
    IF DescriptorsOf(x) = {}
    THEN slots[x].task_id = -1 /\ ~slots[x].is_fixed
    ELSE LET last == CHOOSE k \in DescriptorsOf(x) : \A m \in DescriptorsOf(x) : m <= k
         IN slots[x].is_fixed /\ slots[x].task_id = fixed_slots[last].task_id

C14_NeverNull ==
    Done => ~returned_null /\ DOMAIN slots = 0 .. num_slots - 1
                /\ num_slots = total_slots(NumDays)

(* ------------------------------------------------------------------ *)
(* C15                                                                 *)
(* ------------------------------------------------------------------ *)
\* the call reached the allocation of the sorted copy
ReachedSortedCopy ==
    alloc_fail # "timeline" /\ ~tasks_null /\ num_tasks > 0 /\ num_tasks <= 500

\* the state of the two working arrays that the exit path taken should leave
ReleasedAsAllocated ==
    IF ~ReachedSortedCopy \/ alloc_fail = "sorted"
    THEN heap = [sorted |-> "none", placements |-> "none"]
    ELSE IF alloc_fail = "placements"
    THEN heap = [sorted |-> "freed", placements |-> "none"]
    ELSE heap = [sorted |-> "freed", placements |-> "freed"]

\* C15: on every exit path of optimize_schedule (success, no solution, failed
\* allocation of the sorted copy, failed allocation of the placements array)
\* every working array that was allocated has been released exactly once when
\* the function returns; none is released while the search uses it.
C15_WorkingArraysReleased ==
    /\ heap.sorted # "double_free" /\ heap.placements # "double_free"
    /\ pc = "search" => heap = [sorted |-> "live", placements |-> "live"]
    /\ Done => ReleasedAsAllocated

\* the call whose placements array could not be allocated has returned, the
\* sorted copy released
C15_Witness ==
    Done /\ ReachedSortedCopy /\ alloc_fail = "placements" /\ heap.sorted = "freed"

(* ------------------------------------------------------------------ *)
(* C16                                                                 *)
(* ------------------------------------------------------------------ *)
\* C16: if the allocation of the sorted copy or of the placements array fails,
\* optimize_schedule returns success = false with the message "Memory
\* allocation failed", never enters the search, and the timeline holds the
\* applied fixed slots and nothing else.
C16_AllocationFailure ==
    (Done /\ ReachedSortedCopy /\ alloc_fail \in {"sorted", "placements"}) =>
        /\ ~returned_null /\ ~success
        /\ error_message = << "Memory allocation failed" >>
        /\ explored = {} /\ stack = << >> /\ placements = << >>
        /\ \A x \in DOMAIN slots : AsDescribed(x)

\* the call whose sorted copy could not be allocated has returned, with a fixed
\* slot in its timeline
C16_Witness ==
    /\ Done /\ ReachedSortedCopy /\ alloc_fail = "sorted" /\ ~success
    /\ \E x \in DOMAIN slots : slots[x].is_fixed

(* ------------------------------------------------------------------ *)
(* C17                                                                 *)
(* ------------------------------------------------------------------ *)
\* C17: optimize_schedule never modifies the caller's task array or fixed-slot
\* descriptor array: no step of the call changes their contents or their
\* order (sorting and search act on the working copy and the timeline).
C17_InputsUntouched ==
    [][tasks' = tasks /\ fixed_slots' = fixed_slots]_vars

\* a call has returned whose working copy was put in another order than the
\* caller's array, with a fixed slot applied
C17_Witness ==
    /\ Done /\ num_tasks >= 2 /\ Len(sorted_tasks) = Len(tasks)
    /\ sorted_tasks # tasks
    /\ fixed_slots # << >>

(* ------------------------------------------------------------------ *)
(* C18                                                                 *)
(* ------------------------------------------------------------------ *)
\* the request is one non-fixed study or deep-work task of at least one slot,
\* preferred_energy any, no deadline, and no fixed-slot descriptor
SingleStudyRequest ==
    /\ ~tasks_null /\ num_tasks = 1 /\ Len(tasks) = 1 /\ fixed_slots = << >>
    /\ tasks[1].type \in {TASK_STUDY, TASK_DEEP_WORK}
    /\ ~tasks[1].is_fixed /\ tasks[1].preferred_energy = ENERGY_ANY
    /\ tasks[1].deadline_slot = -1 /\ tasks[1].duration_slots >= 1

\* the single task of the request lies on the slots 16, ..., 16 + duration - 1
\* and nowhere else, and 16 is the first peak slot of the timeline
PlacedAtFirstPeak ==
    /\ success
    /\ SlotsBearing(tasks[1].id) = 16 .. 16 + tasks[1].duration_slots - 1
    /\ is_peak_energy_period(16)
    /\ \A x \in 0 .. 15 : ~is_peak_energy_period(x)

\* C18 as stated: for a single non-fixed study (or deep_work) task with
\* preferred_energy any, no deadline and no fixed slots, optimize_schedule
\* returns success = true, exactly duration_slots consecutive slots carry its
\* id, and the first of them is slot 16, the lowest peak slot.
C18_SingleStudyAtPeak == (Done /\ SingleStudyRequest) => PlacedAtFirstPeak

\* C18, amended: the same for a task that fits between slot 16 and the end of
\* the timeline, duration_slots <= num_slots - 16.
C18_SingleStudyAtPeakFits ==
    (Done /\ SingleStudyRequest /\ tasks[1].duration_slots <= num_slots - 16)
        => PlacedAtFirstPeak

\* the study task of two slots has been placed
C18_Witness ==
    /\ Done /\ SingleStudyRequest /\ tasks[1].type = TASK_STUDY
    /\ tasks[1].duration_slots = 2 /\ success
    /\ slots[16].task_id = tasks[1].id /\ slots[17].task_id = tasks[1].id

(* ------------------------------------------------------------------ *)
(* C19                                                                 *)
(* ------------------------------------------------------------------ *)
\* the request is one non-fixed task of duration d >= 1 with a deadline D,
\* d <= D <= num_slots, and no fixed-slot descriptor
SingleDeadlineRequest ==
    /\ ~tasks_null /\ num_tasks = 1 /\ Len(tasks) = 1 /\ fixed_slots = << >>
    /\ ~tasks[1].is_fixed /\ tasks[1].duration_slots >= 1
    /\ tasks[1].deadline_slot >= tasks[1].duration_slots
    /\ tasks[1].deadline_slot <= num_slots

\* C19: for a single non-fixed task with duration d >= 1 and deadline D,
\* d <= D <= num_slots, and no fixed slots, optimize_schedule returns
\* success = true, the task occupies d slots and the last of them has an index
\* <= D - 1; when D = d the task starts at slot 0.
C19_SingleDeadlineMet ==
    (Done /\ SingleDeadlineRequest) =>
        /\ success
        /\ Cardinality(SlotsBearing(tasks[1].id)) = tasks[1].duration_slots
        /\ \A x \in SlotsBearing(tasks[1].id) : x <= tasks[1].deadline_slot - 1
        /\ tasks[1].deadline_slot = tasks[1].duration_slots
              => SlotsBearing(tasks[1].id) = 0 .. tasks[1].duration_slots - 1

\* the task of two slots with deadline 2 has been placed on slots 0 and 1
C19_Witness ==
    /\ Done /\ SingleDeadlineRequest /\ success
    /\ tasks[1].duration_slots = 2 /\ tasks[1].deadline_slot = 2
    /\ SlotsBearing(tasks[1].id) = {0, 1}

(* ------------------------------------------------------------------ *)
(* C20                                                                 *)
(* ------------------------------------------------------------------ *)
\* some non-fixed task of the request has a deadline D, 0 <= D < duration_slots
SomeDeadlineTooShort ==
    /\ ~tasks_null /\ num_tasks >= 1 /\ num_tasks <= 500 /\ Len(tasks) = num_tasks
    /\ \E k \in 1 .. Len(tasks) :
          /\ ~tasks[k].is_fixed
          /\ tasks[k].deadline_slot >= 0
          /\ tasks[k].deadline_slot < tasks[k].duration_slots

\* C20: if any non-fixed task has a deadline D with 0 <= D < duration_slots,
\* optimize_schedule returns success = false with a message that begins
\* NO_SOLUTION:, whatever the other tasks and the fixed slots.
C20_DeadlineInfeasible ==
    (Done /\ SomeDeadlineTooShort) => ~success /\ IsNoSolution

\* a request with a task of duration 1 and deadline 0, another task that was
\* tried before it, and a fixed slot has been answered
C20_Witness ==
    /\ Done /\ SomeDeadlineTooShort /\ IsNoSolution
    /\ num_tasks >= 2 /\ fixed_slots # << >>
    /\ \E k \in 1 .. Len(tasks) :
          tasks[k].deadline_slot = 0 /\ tasks[k].duration_slots = 1
    /\ \E n \in explored : n[1] = 1

(* ------------------------------------------------------------------ *)
(* C21                                                                 *)
(* ------------------------------------------------------------------ *)
\* the request is one non-fixed study task of one slot without deadline, and
\* the descriptors that name slot 16 carry the task_id -1
FixedEmptyRequest ==
    /\ ~tasks_null /\ num_tasks = 1 /\ Len(tasks) = 1
    /\ tasks[1].type = TASK_STUDY /\ ~tasks[1].is_fixed
    /\ tasks[1].duration_slots = 1 /\ tasks[1].deadline_slot = -1
    /\ tasks[1].id >= 0
    /\ \E k \in 1 .. Len(fixed_slots) : fixed_slots[k].slot_index = 16
    /\ \A k \in 1 .. Len(fixed_slots) :
          fixed_slots[k].slot_index = 16 => fixed_slots[k].task_id = -1

\* no start recorded for a searched task puts one of its slots on a slot that
\* a fixed-slot descriptor names
NoRunOnFixed ==
    \A k \in Searched :
        (k <= Len(placements) /\ placements[k] # EMPTY) => RunOf(k) \cap NamedFixed = {}

\* C21: a slot named by a fixed-slot descriptor is never used for a task, also
\* when the descriptor carries the task_id -1: with one study task of duration 1
\* and a descriptor {slot 16, task_id -1} the result is success = true, slot 16
\* still has task_id -1 and is_fixed = true, and the task is on one slot other
\* than 16.
C21_FixedEmptySlotUnused ==
    /\ pc \in {"search", "done"} => NoRunOnFixed
    /\ (Done /\ FixedEmptyRequest) =>
          /\ success
          /\ slots[16].task_id = -1 /\ slots[16].is_fixed
          /\ Cardinality(SlotsBearing(tasks[1].id)) = 1
          /\ 16 \notin SlotsBearing(tasks[1].id)

\* the study task has been placed next to the fixed slot 16
C21_Witness ==
    /\ Done /\ FixedEmptyRequest /\ success
    /\ fixed_slots = << FixedSlot(16, -1) >>
    /\ SlotsBearing(tasks[1].id) = {17}

(* ------------------------------------------------------------------ *)
(* C22                                                                 *)
(* ------------------------------------------------------------------ *)
\* the request is a list of non-fixed tasks of one and the same duration >= 1,
\* with distinct ids >= 0 and no deadline, and there is no fixed-slot descriptor
UniformRequest ==
    /\ ~tasks_null /\ num_tasks >= 1 /\ num_tasks <= MAX_TASKS /\ Len(tasks) = num_tasks
    /\ fixed_slots = << >>
    /\ \A i \in 1 .. Len(tasks) :
          /\ ~tasks[i].is_fixed /\ tasks[i].deadline_slot = -1 /\ tasks[i].id >= 0
          /\ tasks[i].duration_slots >= 1
          /\ tasks[i].duration_slots = tasks[1].duration_slots
    /\ \A i, j \in 1 .. Len(tasks) : i # j => tasks[i].id # tasks[j].id

\* the tasks of the request ask for more slots than the timeline has, as 500
\* tasks of one slot do of a timeline of 336 slots
OverCapacity == num_tasks * tasks[1].duration_slots > num_slots

\* every task of the request is on duration_slots slots of the timeline (a slot
\* bears one id, so the slots of two tasks are distinct)
EveryIdOnItsSlots ==
    \A i \in 1 .. Len(tasks) :
        Cardinality(SlotsBearing(tasks[i].id)) = tasks[i].duration_slots

\* C22 as stated: a request that exceeds the capacity of the timeline (500
\* non-fixed tasks of duration 1 with distinct ids, no fixed slots, 336 slots;
\* here tasks of equal duration whose durations add up to more than num_slots)
\* is answered with success = true and every id on slots of its own.
C22_OverCapacitySucceeds ==
    (Done /\ UniformRequest /\ OverCapacity) => success /\ EveryIdOnItsSlots

\* C22, amended: a request of n such tasks of duration d is answered with
\* success = true and every id on slots of its own when n * d <= num_slots (n
\* <= 336 for duration 1), and with success = false, NO_SOLUTION and no task on
\* the timeline when n * d > num_slots; 500 tasks of duration 1 are more than
\* the 336 slots of the timeline of 7 days.
C22_CapacityDecides ==
    /\ MAX_TASKS > total_slots(DEFAULT_NUM_DAYS)
    /\ (Done /\ UniformRequest) =>
          IF OverCapacity
          THEN ~success /\ IsNoSolution
                  /\ \A x \in DOMAIN slots : slots[x].task_id = EMPTY
          ELSE success /\ EveryIdOnItsSlots

\* a request of two tasks that exceeds the capacity has been answered, after
\* the first task was tried at more than one start
C22_Witness ==
    /\ Done /\ UniformRequest /\ OverCapacity /\ IsNoSolution
    /\ num_tasks = 2
    /\ Cardinality({n \in explored : n[1] = 1}) >= 2

(* ------------------------------------------------------------------ *)
(* C23                                                                 *)
(* ------------------------------------------------------------------ *)
\* the request is two non-fixed tasks of different priority, with distinct ids
\* >= 0 that no fixed-slot descriptor carries, and durations >= 1
TwoTaskRequest ==
    /\ ValidInput /\ num_tasks = 2
    /\ ~tasks[1].is_fixed /\ ~tasks[2].is_fixed
    /\ tasks[1].priority # tasks[2].priority
    /\ \A k \in 1 .. Len(fixed_slots) : \A i \in 1 .. 2 :
          fixed_slots[k].task_id # tasks[i].id

\* the task of the request with the higher priority, and the other one
HigherTask == IF tasks[1].priority > tasks[2].priority THEN tasks[1] ELSE tasks[2]

LowerTask == IF tasks[1].priority > tasks[2].priority THEN tasks[2] ELSE tasks[1]

\* the timeline with the fixed slots only, as the search finds it
FixedOnly ==
    [x \in DOMAIN slots |->
        IF x \in NamedFixed THEN slots[x] ELSE [slots[x] EXCEPT !.task_id = EMPTY]]

\* the slots a task takes at a start
RunAt(t, start) == {x \in DOMAIN slots : x >= start /\ x - start < t.duration_slots}

\* the start a task would get if it were alone: its best-scored feasible start
\* on the timeline with the fixed slots only, the lowest of them on a tie
BestStarts(t) ==
    LET c == CollectCandidates(FixedOnly, t, "exact") IN
    {c[k].slot : k \in {m \in 1 .. Len(c) :
        \A n \in 1 .. Len(c) :
            c[n].score < c[m].score \/ (c[n].score = c[m].score /\ c[m].slot <= c[n].slot)}}

\* both tasks have a best start, and the slots they would take there overlap:
\* the two compete for a region in which only one of them fits
Contested ==
    /\ BestStarts(HigherTask) # {} /\ BestStarts(LowerTask) # {}
    /\ \E h \in BestStarts(HigherTask) : \E l \in BestStarts(LowerTask) :
          RunAt(HigherTask, h) \cap RunAt(LowerTask, l) # {}

\* the higher-priority task lies on the contested region, its best start
HigherInRegion ==
    \E h \in BestStarts(HigherTask) :
        SlotsBearing(HigherTask.id) = RunAt(HigherTask, h)

\* with the higher-priority task on the region, a feasible start is left for
\* the lower-priority task
LowerFitsBeside ==
    \E h \in BestStarts(HigherTask) :
        Len(CollectCandidates(place_task(FixedOnly, HigherTask, h), LowerTask, "exact")) > 0

\* C23 as stated: when two non-fixed tasks of different priority compete for a
\* region of the timeline in which only one of them can fit, the timeline
\* returned with success = true has the higher-priority task in that region.
C23_HigherTakesRegion ==
    (Done /\ success /\ TwoTaskRequest /\ Contested) => HigherInRegion

\* C23, amended: the same when the lower-priority task has a feasible start
\* outside the region, and then the call succeeds; when it has none, the
\* higher-priority task is not left in the region (the search moves it to a
\* later candidate, or the call fails).
C23_HigherTakesRegionIfLowerFits ==
    (Done /\ TwoTaskRequest /\ Contested) =>
        IF LowerFitsBeside
        THEN /\ success /\ HigherInRegion
             /\ SlotsBearing(LowerTask.id) \cap SlotsBearing(HigherTask.id) = {}
             /\ Cardinality(SlotsBearing(LowerTask.id)) = LowerTask.duration_slots
        ELSE ~(success /\ HigherInRegion)

\* two tasks whose best start is the same slot have been placed: the
\* higher-priority one there, the lower-priority one right after it
C23_Witness ==
    /\ Done /\ success /\ TwoTaskRequest /\ Contested /\ LowerFitsBeside
    /\ BestStarts(HigherTask) = BestStarts(LowerTask)
    /\ HigherInRegion
    /\ \E h \in BestStarts(HigherTask) :
          SlotsBearing(LowerTask.id)
              = RunAt(LowerTask, h + HigherTask.duration_slots)

(* ------------------------------------------------------------------ *)
(* C24                                                                 *)
(* ------------------------------------------------------------------ *)
\* the request holds non-fixed study and deep-work tasks only, with
\* preferred_energy any and no deadline, and there is no fixed-slot descriptor
StudyOnlyRequest ==
    /\ ValidInput /\ fixed_slots = << >>
    /\ \A i \in 1 .. Len(tasks) :
          /\ tasks[i].type \in {TASK_STUDY, TASK_DEEP_WORK}
          /\ ~tasks[i].is_fixed /\ tasks[i].preferred_energy = ENERGY_ANY
          /\ tasks[i].deadline_slot = -1

\* the timeline as the task at index k of the processing order found it when
\* it was given its start: the tasks before it at their starts
RECURSIVE TimelineBefore(_)
TimelineBefore(k) ==
    IF k <= 1 THEN FixedOnly
    ELSE IF placements[k - 1] = EMPTY THEN TimelineBefore(k - 1)
    ELSE place_task(TimelineBefore(k - 1), sorted_tasks[k - 1], placements[k - 1])

\* an unoccupied peak start feasible for the task at index k remained
HadPeakStart(k) ==
    LET c == CollectCandidates(TimelineBefore(k), sorted_tasks[k], "exact") IN
    \E m \in 1 .. Len(c) : is_peak_energy_period(c[m].slot)

SomeStartsAtPeak == \E k \in Searched : is_peak_energy_period(placements[k])

PeakWhereverPossible ==
    \A k \in Searched : HadPeakStart(k) => is_peak_energy_period(placements[k])

\* no placement was undone: the search entered one node per task index
NoPlacementUndone ==
    \A d \in 0 .. num_tasks : Cardinality({n \in explored : n[1] = d}) <= 1

\* the candidate array of every search node begins with a peak start if it
\* holds one
PeakTriedFirst ==
    \A d \in 1 .. Len(stack) :
        LET c == stack[d].candidates IN
        (\E m \in 1 .. Len(c) : is_peak_energy_period(c[m].slot))
            => is_peak_energy_period(c[1].slot)

\* C24 as stated: when only study/deep_work tasks (preferred_energy any, no
\* deadlines, no fixed slots) are supplied and the schedule succeeds, at least
\* one placed task starts in a peak slot, and every task starts in a peak slot
\* as long as an unoccupied peak start feasible for it remains when it is placed.
C24_EnergyBias ==
    (Done /\ success /\ StudyOnlyRequest) => SomeStartsAtPeak /\ PeakWhereverPossible

\* C24, amended: for such a request every task is first tried at a peak start
\* whenever an unoccupied peak start feasible for it remains; when the schedule
\* succeeds without a placement being undone, every task for which such a start
\* remained starts in a peak slot, and at least one does if the task processed
\* first is at most num_slots - 16 slots long.
C24_EnergyBiasFirstChoice ==
    StudyOnlyRequest =>
        /\ pc = "search" => PeakTriedFirst
        /\ (Done /\ success /\ NoPlacementUndone) =>
              /\ PeakWhereverPossible
              /\ sorted_tasks[1].duration_slots <= num_slots - 16 => SomeStartsAtPeak

\* two tasks have been placed on the peak slots 16 and 17, each at its first
\* candidate
C24_Witness ==
    /\ Done /\ success /\ StudyOnlyRequest /\ NoPlacementUndone
    /\ num_tasks = 2
    /\ placements = << 16, 17 >>
    /\ HadPeakStart(2)

(* ------------------------------------------------------------------ *)
(* C25                                                                 *)
(* ------------------------------------------------------------------ *)
\* the hour of a slot and the hours of the three classes, as the claim has them
HourOfSlot(i) == (i % 48) \div 2

PeakHours == (8 .. 9) \cup (16 .. 17)

MediumHours == (6 .. 7) \cup (10 .. 11) \cup (14 .. 15) \cup (18 .. 19)

LowHours == (12 .. 13) \cup (20 .. 23) \cup (0 .. 5)

\* the number of the three predicates that hold of a slot
ClassesOf(i) ==
    Cardinality({c \in {"peak", "medium", "low"} :
        \/ c = "peak" /\ is_peak_energy_period(i)
        \/ c = "medium" /\ is_medium_energy_period(i)
        \/ c = "low" /\ is_low_energy_period(i)})

\* C25: the energy class of a slot depends only on hour = (slot_index mod 48) /
\* 2: peak iff hour in [8,10) or [16,18), medium iff hour in [6,8), [10,12),
\* [14,16) or [18,20), low iff hour in [12,14), [20,24) or [0,6); for every
\* slot index 0 .. 335 exactly one of the three predicates holds and
\* get_energy_level returns 9, 6, 3 respectively, never 5; the slots of a
\* timeline carry that level.
C25_EnergyClasses ==
    /\ \A i \in 0 .. 335 :
          /\ is_peak_energy_period(i) <=> HourOfSlot(i) \in PeakHours
          /\ is_medium_energy_period(i) <=> HourOfSlot(i) \in MediumHours
          /\ is_low_energy_period(i) <=> HourOfSlot(i) \in LowHours
          /\ ClassesOf(i) = 1
          /\ get_energy_level(i) =
                IF HourOfSlot(i) \in PeakHours THEN 9
                ELSE IF HourOfSlot(i) \in MediumHours THEN 6 ELSE 3
          /\ get_energy_level(i) # 5
    /\ \A x \in DOMAIN slots :
          slots[x].energy_level =
              IF HourOfSlot(x) \in PeakHours THEN 9
              ELSE IF HourOfSlot(x) \in MediumHours THEN 6 ELSE 3

\* a timeline has been returned whose slots 0, 12, 16 and 47 carry the levels
\* of the night, of the medium hour 6, of the peak hour 8 and of the evening
C25_Witness ==
    /\ Done /\ ~returned_null /\ DOMAIN slots # {}
    /\ slots[0].energy_level = 3 /\ slots[12].energy_level = 6
    /\ slots[16].energy_level = 9 /\ slots[47].energy_level = 3

(* ------------------------------------------------------------------ *)
(* C26                                                                 *)
(* ------------------------------------------------------------------ *)
\* the message is one of the three the failures write
IsFailureMessage ==
    \/ Len(error_message) >= 2 /\ error_message[1] = "Invalid number of tasks: "
    \/ error_message = << "Memory allocation failed" >>
    \/ IsNoSolution

\* C26: in every timeline returned by optimize_schedule, success = true implies
\* that error_message is empty, and success = false implies that it is not
\* empty (invalid count, memory failure, or NO_SOLUTION).
C26_MessageIffFailure ==
    (Done /\ ~returned_null) =>
        /\ success => error_message = << >>
        /\ ~success => error_message # << >> /\ IsFailureMessage

\* a search of two nodes or more has ended in NO_SOLUTION
C26_Witness ==
    /\ Done /\ ~returned_null /\ ~success /\ IsNoSolution
    /\ Cardinality(explored) >= 2

(* ------------------------------------------------------------------ *)
(* C27                                                                 *)
(* ------------------------------------------------------------------ *)
\* A reader of the output document, which the repository does not have: it
\* looks a field up by its key and reads the value that follows the key.
\* the position of the first piece equal to key at or after from, 0 if none
RECURSIVE FindPiece(_, _, _)
FindPiece(doc, from, key) ==
    IF from > Len(doc) THEN 0
    ELSE IF doc[from] = key THEN from
    ELSE FindPiece(doc, from + 1, key)

IsNumeralPiece(x) == x = "-" \/ \E k \in 1 .. 10 : DigitChars[k] = x

\* the position after the numeral that begins at p
RECURSIVE NumeralEnd(_, _)
NumeralEnd(doc, p) ==
    IF p <= Len(doc) /\ IsNumeralPiece(doc[p]) THEN NumeralEnd(doc, p + 1) ELSE p

\* the integer after the first key at or after from
ReadInt(doc, from, key) ==
    LET p == FindPiece(doc, from, key) + 1
    IN NumeralValue(SubSeq(doc, p, NumeralEnd(doc, p) - 1))

\* the boolean after the first key at or after from
ReadBool(doc, from, key) == doc[FindPiece(doc, from, key) + 1] = "true"

\* the positions at which a slot record opens, in order
SlotOpenings(doc) ==
    SelectSeq([i \in 1 .. Len(doc) |-> i], LAMBDA i : doc[i] = "    {\n")

\* the slot record that opens at p
ReadSlot(doc, p) ==
    [slot_index |-> ReadInt(doc, p, "      \"slot_index\": "),
     task_id |-> ReadInt(doc, p, "      \"task_id\": "),
     is_fixed |-> ReadBool(doc, p, "      \"is_fixed\": ")]

\* the Timeline read back from a document
ReadTimeline(doc) ==
    LET opens == SlotOpenings(doc) IN
    [success |-> ReadBool(doc, 1, "  \"success\": "),
     num_slots |-> ReadInt(doc, 1, "  \"num_slots\": "),
     slots |-> [k \in 1 .. Len(opens) |-> ReadSlot(doc, opens[k])]]

\* the fields of a Timeline the round trip is about
RoundTripFields(timeline) ==
    [success |-> timeline.success,
     num_slots |-> timeline.num_slots,
     slots |-> [k \in 1 .. timeline.num_slots |->
                  [slot_index |-> timeline.slots[k - 1].slot_index,
                   task_id |-> timeline.slots[k - 1].task_id,
                   is_fixed |-> timeline.slots[k - 1].is_fixed]]]

\* main has written a document and no realloc of timeline_to_json failed
DocumentWritten == pc = "exited" /\ exit_code = 0 /\ alloc_fail # "json_grow"

\* C27: for every Timeline, serializing it with timeline_to_json and re-parsing
\* the document yields a Timeline with identical success, num_slots, and
\* per-slot slot_index, task_id and is_fixed values.
C27_RoundTrip ==
    DocumentWritten => ReadTimeline(out) = RoundTripFields(ReturnedTimeline)

\* a successful schedule with a fixed slot of task 105, a slot of task 1 that is
\* not fixed and an empty slot was written and read back
C27_Witness ==
    /\ DocumentWritten /\ success
    /\ \E i, j, k \in DOMAIN slots :
          /\ slots[i].is_fixed /\ slots[i].task_id = 105
          /\ ~slots[j].is_fixed /\ slots[j].task_id = 1
          /\ slots[k].task_id = EMPTY
          /\ ReadTimeline(out).slots[i + 1].task_id = 105
          /\ ReadTimeline(out).slots[k + 1].task_id = EMPTY

(* ------------------------------------------------------------------ *)
(* C28                                                                 *)
(* ------------------------------------------------------------------ *)
Exited == pc = "exited"

\* standard input does not hold a document of the input format
ParsingFailed == ~input_json.wellformed

\* an allocation of the run was asked for and failed (the working arrays are
\* asked for when there is a task, the buffer of a timeline of 48 slots or more
\* has to grow past INITIAL_BUFFER_SIZE)
AllocationFailed ==
    \/ alloc_fail = "input"
    \/ ParseFails
    \/ alloc_fail = "timeline"
    \/ alloc_fail \in {"sorted", "placements"} /\ num_tasks > 0
    \/ alloc_fail \in {"json_buffer", "json_escape", "json_grow"}

\* the text on standard output is a whole document
IsWholeDocument(doc) == doc # << >> /\ doc[1] = "{\n" /\ doc[Len(doc)] = "}\n"

\* C28: the process returns exit code 0 exactly when it emits an output document
\* on standard output (including documents with success=false), and returns
\* non-zero, writing only a single-line fallback error document to standard
\* error, whenever input parsing fails or an allocation fails.
C28_ExitCodes ==
    Exited =>
        /\ exit_code = 0 <=> IsWholeDocument(out)
        /\ (ParsingFailed \/ AllocationFailed) =>
               (exit_code # 0 /\ out = << >> /\ Len(err) = 1)

(* ------------------------------------------------------------------ *)
(* C29                                                                 *)
(* ------------------------------------------------------------------ *)
\* the top activation record has just built its candidate array: the timeline
\* is the one the array was built on
JustCollected ==
    /\ pc = "search" /\ ret = "none" /\ stack # << >>
    /\ Top.phase = "loop" /\ Top.i = 0

\* the feasible starts of a task on the timeline, as the claim has them
\* (s + duration <= limit is written duration <= limit - s)
FeasibleStarts(t) ==
    {st \in 0 .. num_slots - 1 :
        /\ t.duration_slots <= num_slots - st
        /\ t.deadline_slot >= 0 => t.duration_slots <= t.deadline_slot - st
        /\ \A x \in DOMAIN slots :
              (x >= st /\ x - st < t.duration_slots)
                  => slots[x].task_id = -1 /\ ~slots[x].is_fixed}

\* C29: for every timeline state and task, the candidate list built by the
\* solver is exactly the set of start slots s with 0 <= s, s + duration <=
\* num_slots, s + duration <= deadline when deadline >= 0, and every slot in
\* [s, s + duration) both empty and not fixed: no feasible start is omitted,
\* no infeasible start is included, and none is listed twice.
C29_CandidatesExact ==
    JustCollected =>
        LET c == Top.candidates IN
        /\ {c[k].slot : k \in 1 .. Len(c)} = FeasibleStarts(TaskOf(Top))
        /\ Len(c) = Cardinality(FeasibleStarts(TaskOf(Top)))

\* the candidates of a task of two slots or more have been built on a timeline
\* that holds a fixed slot and a placed task, some starts feasible, some not
C29_Witness ==
    /\ JustCollected
    /\ TaskOf(Top).duration_slots >= 2
    /\ Len(Top.candidates) > 0 /\ Len(Top.candidates) < num_slots - 3
    /\ \E x \in DOMAIN slots : slots[x].is_fixed
    /\ \E x \in DOMAIN slots : slots[x].task_id # -1 /\ ~slots[x].is_fixed

(* ------------------------------------------------------------------ *)
(* C30                                                                 *)
(* ------------------------------------------------------------------ *)
\* every candidate array is in order of descending score, equal scores in
\* order of ascending slot index, and the scores are those of the energy score
CandidatesOrdered ==
    \A d \in 1 .. Len(stack) :
        LET c == stack[d].candidates IN
        /\ \A a \in 1 .. Len(c) - 1 :
              \/ c[a].score > c[a + 1].score
              \/ c[a].score = c[a + 1].score /\ c[a].slot < c[a + 1].slot
        /\ \A a \in 1 .. Len(c) :
              c[a].score = calculate_energy_score(TaskOf(stack[d]), c[a].slot)

\* the start a node has recorded while the search is below it is the candidate
\* at its loop index
TriedIsCurrent ==
    \A d \in 1 .. Len(stack) - 1 :
        stack[d].phase = "loop" =>
            /\ stack[d].i < Len(stack[d].candidates)
            /\ placements[d] = stack[d].candidates[stack[d].i + 1].slot

\* a step leaves the candidate array of a node as it is and moves its loop
\* index by one at most
LoopAdvancesByOne ==
    \A d \in 1 .. Len(stack) :
        (d <= Len(stack') /\ stack[d].phase = "loop" /\ stack'[d].phase = "loop") =>
            /\ stack'[d].candidates = stack[d].candidates
            /\ stack'[d].i = stack[d].i \/ stack'[d].i = stack[d].i + 1

\* C30: for every task the candidate start slots are tried in order of
\* descending score, and candidates of equal score in order of ascending slot
\* index (the sort of the candidate array keeps the ascending order of the
\* enumeration among equal scores).
C30_TriedByScore ==
    [](pc = "search" => CandidatesOrdered /\ TriedIsCurrent)
        /\ [][pc = "search" => LoopAdvancesByOne]_vars

\* a node whose candidates have three scores, two of them shared by several
\* starts, is at its second candidate or later
C30_Witness ==
    /\ pc = "search"
    /\ \E d \in 1 .. Len(stack) :
          LET c == stack[d].candidates IN
          /\ stack[d].i >= 1
          /\ Cardinality({c[a].score : a \in 1 .. Len(c)}) >= 3
          /\ \E a, b \in 1 .. Len(c) : a # b /\ c[a].score = c[b].score /\ c[a].score > 0

(* ------------------------------------------------------------------ *)
(* C31                                                                 *)
(* ------------------------------------------------------------------ *)
\* the energy class of a slot, by its hour
EnergyClass(s) ==
    IF HourOfSlot(s) \in PeakHours THEN "peak"
    ELSE IF HourOfSlot(s) \in MediumHours THEN "medium" ELSE "low"

\* the terms of the score, as the claim lists them
KindTerm(kind, class) ==
    IF kind \in {TASK_STUDY, TASK_DEEP_WORK}
    THEN IF class = "peak" THEN 10 ELSE IF class = "medium" THEN 5 ELSE 0
    ELSE IF kind \in {TASK_PRACTICE, TASK_REVISION}
    THEN IF class = "peak" THEN 7 ELSE IF class = "medium" THEN 8 ELSE 0
    ELSE IF kind \in {TASK_BREAK, TASK_FREE_TIME}
    THEN IF class = "low" THEN 10 ELSE 0
    ELSE 0

PreferenceTerm(preferred_energy, class) ==
    IF \/ preferred_energy = ENERGY_PREFER_PEAK /\ class = "peak"
       \/ preferred_energy = ENERGY_PREFER_MEDIUM /\ class = "medium"
       \/ preferred_energy = ENERGY_PREFER_LOW /\ class = "low"
    THEN 5 ELSE 0

\* C31: the score of a candidate start s for task t depends only on t.kind,
\* t.preferred_energy and the energy class of s (not of the later slots of the
\* run) and equals the sum of the kind term (+10/+5 study or deep work at
\* peak/medium, +7/+8 practice or revision at peak/medium, +10 break or free
\* time at low, 0 otherwise) and +5 when preferred_energy is not any and
\* matches the class of s; the score is always in 0 .. 15.
C31_ScoreTable ==
    \A d \in 1 .. Len(stack) :
        \A a \in 1 .. Len(stack[d].candidates) :
            LET c == stack[d].candidates[a]
                t == TaskOf(stack[d])
            IN /\ c.score = KindTerm(t.type, EnergyClass(c.slot))
                               + PreferenceTerm(t.preferred_energy, EnergyClass(c.slot))
               /\ c.score \in 0 .. 15

\* the candidates of a revision task of two slots that prefers medium energy
\* hold the start 15, whose run ends in the peak hour 8, with the score 13, and
\* a start of score 7
C31_Witness ==
    /\ pc = "search" /\ Len(stack) >= 1
    /\ TaskOf(stack[1]).type = TASK_REVISION
    /\ TaskOf(stack[1]).preferred_energy = ENERGY_PREFER_MEDIUM
    /\ TaskOf(stack[1]).duration_slots = 2
    /\ \E a, b \in 1 .. Len(stack[1].candidates) :
          /\ stack[1].candidates[a].slot = 15 /\ stack[1].candidates[a].score = 13
          /\ stack[1].candidates[b].score = 7

(* ------------------------------------------------------------------ *)
(* C32                                                                 *)
(* ------------------------------------------------------------------ *)
\* the tasks at the indices k .. of the processing order can all be placed on
\* the timeline sl, one after the other, whatever the order of the tries
RECURSIVE CanComplete(_, _)
CanComplete(sl, k) ==
    IF k > Len(sorted_tasks) THEN TRUE
    ELSE IF sorted_tasks[k].is_fixed THEN CanComplete(sl, k + 1)
    ELSE \E st \in 0 .. num_slots - 1 :
            /\ can_place_task(sl, sorted_tasks[k], st, "exact")
            /\ CanComplete(place_task(sl, sorted_tasks[k], st), k + 1)

\* the search has run to its end
SearchEnded == Done /\ ~returned_null /\ heap.placements = "freed"

\* the position of the start of the task at index k among its candidates on the
\* timeline holding the starts of the tasks before it, 0 if it is none of them
ChosenPosition(k) ==
    LET c == SortedCandidates(TimelineBefore(k), sorted_tasks[k], "exact")
        at == {m \in 1 .. Len(c) : c[m].slot = placements[k]}
    IN IF at = {} THEN 0 ELSE CHOOSE m \in at : TRUE

\* the start of the task at index k is the earliest of its candidates from
\* which the tasks after it can still be placed
EarliestCompletable(k) ==
    LET before == TimelineBefore(k)
        c == SortedCandidates(before, sorted_tasks[k], "exact")
        m == ChosenPosition(k)
    IN /\ m >= 1
       /\ \A j \in 1 .. m - 1 :
             ~CanComplete(place_task(before, sorted_tasks[k], c[j].slot), k + 1)

\* C32: the returned successful schedule is the first complete placement in
\* depth-first order: for each non-fixed task in processing order its start is
\* the earliest candidate (score descending, slot ascending, computed on the
\* timeline holding the earlier tasks' chosen starts) from which all remaining
\* tasks can still be placed; the solve fails only when no complete placement
\* exists.
C32_FirstCompletePlacement ==
    SearchEnded =>
        IF success
        THEN \A k \in Searched : EarliestCompletable(k)
        ELSE ~CanComplete(FixedOnly, 1)

\* a successful schedule of two searched tasks in which the first was moved to
\* a later candidate and the second has the first of its candidates
C32_Witness ==
    /\ SearchEnded /\ success
    /\ \E k, n \in Searched :
          /\ k < n
          /\ ChosenPosition(k) >= 2
          /\ ChosenPosition(n) = 1

(* ------------------------------------------------------------------ *)
(* C33                                                                 *)
(* ------------------------------------------------------------------ *)
\* the fixed-slot loop has run and no task has been placed yet: the search is
\* about to enter its first node, or the task list was empty
FixedJustApplied ==
    \/ pc = "search" /\ explored = {}
    \/ Done /\ ~returned_null /\ NoSearch /\ ~InvalidCount(num_tasks)

\* the last descriptor of the input that names the slot x
LastDescriptorOf(x) == CHOOSE k \in DescriptorsOf(x) : \A m \in DescriptorsOf(x) : m <= k

\* C33: fixed-slot application before the search: each descriptor with
\* 0 <= slot_index < num_slots sets that slot's task_id to the descriptor's
\* task_id and is_fixed to true; descriptors with slot_index outside
\* [0, num_slots) change nothing and cause no error; when two descriptors name
\* the same slot_index, the one later in the input determines the task_id.
C33_FixedApplication ==
    FixedJustApplied =>
        /\ \A x \in DOMAIN slots :
              IF DescriptorsOf(x) = {}
              THEN slots[x] = timeslot_init(x)
              ELSE /\ slots[x].is_fixed
                   /\ slots[x].task_id = fixed_slots[LastDescriptorOf(x)].task_id
        /\ DOMAIN slots = 0 .. num_slots - 1
        /\ ~oob
        /\ error_message = EmptyMessage

\* two descriptors name slot 3 with different ids, the loop has run and the
\* slot carries the id of the second
C33_Witness ==
    /\ FixedJustApplied /\ pc = "search"
    /\ Len(fixed_slots) = 2
    /\ fixed_slots[1].slot_index = 3 /\ fixed_slots[2].slot_index = 3
    /\ fixed_slots[1].task_id # fixed_slots[2].task_id
    /\ slots[3].task_id = fixed_slots[2].task_id

(* ------------------------------------------------------------------ *)
(* C34                                                                 *)
(* ------------------------------------------------------------------ *)
\* the indices of the processing order that hold a task with is_fixed = true
FixedTasks == {k \in 1 .. Len(sorted_tasks) : sorted_tasks[k].is_fixed}

\* no other task of the request has the id of the task at index k
IdIsItsOwn(k) ==
    \A m \in 1 .. Len(sorted_tasks) : m # k => sorted_tasks[m].id # sorted_tasks[k].id

\* the id of the task at index k is on no slot but those a fixed-slot descriptor
\* gave it to
OnlyWhereDescribed(k) ==
    \A x \in DOMAIN slots :
        slots[x].task_id = sorted_tasks[k].id =>
            /\ DescriptorsOf(x) # {}
            /\ fixed_slots[LastDescriptorOf(x)].task_id = sorted_tasks[k].id

\* the search nodes of the task at index k hold no candidate and no start
NeverTried(k) ==
    /\ k <= Len(placements) => placements[k] = EMPTY
    /\ \A d \in 1 .. Len(stack) :
          stack[d].task_index + 1 = k =>
              stack[d].candidates = << >> /\ stack[d].phase \in {"entry", "skip"}

\* C34: a task with is_fixed = true is skipped by the solver: the solver never
\* writes its id into any slot, never checks its duration or deadline, and its
\* presence never turns a solvable instance into NO_SOLUTION; if no fixed-slot
\* descriptor carries its id, the id does not appear anywhere in the returned
\* timeline while success is still true.
C34_FixedTaskSkipped ==
    /\ \A k \in FixedTasks :
          /\ NeverTried(k)
          /\ IdIsItsOwn(k) => OnlyWhereDescribed(k)
    /\ (SearchEnded /\ FixedTasks # {} /\ CanComplete(FixedOnly, 1)) => success

\* a request with a fixed task of deadline 0, which no start could meet, and a
\* searched task has ended with success; the id of the fixed task is on no slot
C34_Witness ==
    /\ SearchEnded /\ success
    /\ \E k \in FixedTasks, n \in Searched :
          /\ sorted_tasks[k].deadline_slot = 0 /\ sorted_tasks[k].duration_slots = 2
          /\ placements[n] # EMPTY
          /\ \A x \in DOMAIN slots : slots[x].task_id # sorted_tasks[k].id

(* ------------------------------------------------------------------ *)
(* C35                                                                 *)
(* ------------------------------------------------------------------ *)
\* the timeline on which the call for the index n (counted from 0) was entered:
\* the fixed slots, then the runs of the tasks before it at their recorded starts
RECURSIVE EntryTimeline(_)
EntryTimeline(n) ==
    IF n = 0 THEN ApplyFixedFrom(timeline_init_slots(NumDays), fixed_slots, 1)
    ELSE IF placements[n] = EMPTY THEN EntryTimeline(n - 1)
    ELSE place_task(EntryTimeline(n - 1), sorted_tasks[n], placements[n])

\* a call of backtrack has just returned false: it was the call for the index
\* Len(stack)
ReturnedFailure == pc = "search" /\ ret = "false"

\* the loop of the top search node is about to try a candidate
AboutToTry ==
    /\ pc = "search" /\ ret = "none" /\ stack # << >>
    /\ Top.phase = "loop" /\ Top.i < Len(Top.candidates)

\* C35: undo is exact: whenever a recursive call of the search returns failure,
\* the timeline is slot for slot the timeline at the moment that call was
\* entered; each candidate computed once at a search node is still feasible
\* (all its slots in the timeline, empty and not fixed) at the moment it is
\* tried, so a trial placement never overwrites a slot of another task.
C35_UndoExact ==
    /\ ReturnedFailure =>
          /\ slots = EntryTimeline(Len(stack))
          /\ \A k \in Len(stack) + 1 .. Len(placements) : placements[k] = EMPTY
    /\ AboutToTry =>
          LET run == RunAt(TaskOf(Top), Top.candidates[Top.i + 1].slot) IN
          /\ TaskOf(Top).duration_slots >= 1 =>
                Cardinality(run) = TaskOf(Top).duration_slots
          /\ \A x \in run : slots[x].task_id = EMPTY /\ ~slots[x].is_fixed

\* the call below a node that has already taken one placement back returned
\* false in turn, with the run of an earlier task on the timeline
C35_Witness ==
    /\ ReturnedFailure /\ Len(stack) >= 1
    /\ Top.phase = "loop" /\ Top.i >= 1
    /\ placements[1] # EMPTY
    /\ \E x \in DOMAIN slots : slots[x].task_id = sorted_tasks[1].id /\ ~slots[x].is_fixed

(* ------------------------------------------------------------------ *)
(* C36                                                                 *)
(* ------------------------------------------------------------------ *)
\* the number of indices of the processing order whose start is on the
\* timeline: while a call runs (ret = "none") those before the index of the top
\* search node, when a call has returned false also the index of the node it
\* returned to, whose trial is still in progress, and all of them when a call
\* has returned true
PlacedIndices ==
    IF ret = "true" THEN Len(sorted_tasks)
    ELSE IF ret = "false" THEN Len(stack)
    ELSE Len(stack) - 1

\* the slots that are not fixed and bear the id of the task at index k
NonFixedBearing(k) ==
    {x \in DOMAIN slots : slots[x].task_id = sorted_tasks[k].id /\ ~slots[x].is_fixed}

\* the task at index k is placed exactly once
PlacedOnce(k) ==
    /\ placements[k] >= 0
    /\ Cardinality(RunOf(k)) = sorted_tasks[k].duration_slots
    /\ NonFixedBearing(k) = RunOf(k)

\* the task at index k is unplaced
Unplaced(k) == placements[k] = EMPTY /\ NonFixedBearing(k) = {}

\* the runs of the placed tasks are pairwise disjoint and hold no fixed slot
RunsDisjoint ==
    /\ \A k, n \in Searched :
          (k # n /\ placements[k] # EMPTY /\ placements[n] # EMPTY) =>
              RunOf(k) \cap RunOf(n) = {}
    /\ \A k \in Searched :
          placements[k] # EMPTY => \A x \in RunOf(k) : ~slots[x].is_fixed

\* the processing order is by descending priority and a task has no start
\* while a searched task before it has none
HigherPlacedFirst ==
    /\ \A k, n \in 1 .. Len(sorted_tasks) :
          k < n => sorted_tasks[k].priority >= sorted_tasks[n].priority
    /\ \A k, n \in Searched :
          (k < n /\ placements[n] # EMPTY) => placements[k] # EMPTY

\* C36: in every state during the search, when the solver is working at sorted
\* index i, every non-fixed task at an index < i is placed exactly once
\* (placements[j] = s and slots [s, s + duration) bear its id), every task at an
\* index >= i whose trial is not in progress is unplaced (placements = -1 and
\* its id on no non-fixed slot), and the placed ranges are pairwise disjoint
\* and disjoint from fixed slots; so a lower-priority task is never assigned a
\* start before every higher-priority non-fixed task has one.
C36_SearchInvariant ==
    (pc = "search" /\ SearchedWellFormed) =>
        /\ \A k \in Searched :
              IF k <= PlacedIndices THEN PlacedOnce(k) ELSE Unplaced(k)
        /\ RunsDisjoint
        /\ HigherPlacedFirst

\* the second search node holds its candidates while the first task, which
\* was moved to a later candidate, is on the timeline and the second is not
C36_Witness ==
    /\ pc = "search" /\ ret = "none" /\ SearchedWellFormed
    /\ Len(stack) = 2 /\ Top.phase = "loop" /\ stack[1].i >= 1
    /\ Searched = {1, 2}
    /\ placements[1] # EMPTY /\ placements[2] = EMPTY

(* ------------------------------------------------------------------ *)
(* C37                                                                 *)
(* ------------------------------------------------------------------ *)
\* the timeline exists and the fixed-slot loop has run: the search is under
\* way, or the call has returned a timeline on a path that passed the loop
TimelineInUse ==
    \/ pc = "search"
    \/ Done /\ ~returned_null /\ ~InvalidCount(num_tasks)

\* the fields of slot x that no step after timeline_init writes
SlotFrame(x) ==
    /\ slots[x].slot_index = x
    /\ slots[x].energy_level = get_energy_level(x)
    /\ slots[x].is_fixed = (x \in NamedFixed)

\* a fixed slot keeps the task_id of the last descriptor that names it
FixedIdKept(x) ==
    x \in NamedFixed => slots[x].task_id = fixed_slots[LastDescriptorOf(x)].task_id

\* C37: the search changes only the task_id field of slots that are not fixed:
\* in every state of the search and at exit num_slots is the slot count of
\* timeline_init (336 for the default 7 days), each slot's slot_index equals
\* its position, each slot's energy_level equals get_energy_level(position),
\* and a slot has is_fixed = true if and only if some in-range fixed-slot
\* descriptor named it (placing a task never sets is_fixed).
C37_SearchFrame ==
    /\ total_slots(DEFAULT_NUM_DAYS) = 336
    /\ TimelineInUse =>
          /\ num_slots = total_slots(NumDays)
          /\ DOMAIN slots = 0 .. num_slots - 1
          /\ \A x \in DOMAIN slots : SlotFrame(x) /\ FixedIdKept(x)

\* the search holds a placed task next to a fixed slot, with one descriptor of
\* the input out of range
C37_Witness ==
    /\ pc = "search" /\ NamedFixed # {}
    /\ \E k \in 1 .. Len(fixed_slots) :
          ~FixedInRange(fixed_slots[k].slot_index, num_slots)
    /\ \E k \in Searched :
          /\ placements[k] # EMPTY /\ RunOf(k) # {}
          /\ \A x \in RunOf(k) : slots[x].task_id = sorted_tasks[k].id /\ ~slots[x].is_fixed

(* ------------------------------------------------------------------ *)
(* C38                                                                 *)
(* ------------------------------------------------------------------ *)
\* parse_json_input has returned 0 and main has gone on
Parsed == pc \in {"call", "search", "done"} \/ (Exited /\ exit_code = 0)

\* the message of the invalid-count return of optimize_schedule
IsInvalidCountMessage ==
    error_message # << >> /\ error_message[1] = "Invalid number of tasks: "

\* the tasks array of the input document has more than MAX_TASKS elements
TooManyTasks == Len(input_json.tasks) > MAX_TASKS

\* the returned timeline is the one of an empty task list: success, no message,
\* no search, and nothing but the fixed slots assigned
TrivialSchedule ==
    /\ success /\ error_message = EmptyMessage /\ NoSearch
    /\ \A x \in DOMAIN slots : x \notin NamedFixed => slots[x].task_id = EMPTY

\* C38: through the process surface the core is never invoked with an
\* out-of-range task count: parse_json_input yields num_tasks in 0..500 and
\* num_fixed in 0..336 for every input text, and an input document whose tasks
\* array has more than 500 elements is treated as having no tasks (so the
\* process emits the trivial success=true schedule instead of the
\* invalid-count error).
C38_CountsInRange ==
    /\ Parsed =>
          /\ num_tasks \in 0 .. MAX_TASKS /\ num_tasks = Len(tasks)
          /\ Len(fixed_slots) \in 0 .. MAX_SLOTS
          /\ ~InvalidCount(num_tasks)
          /\ TooManyTasks => tasks_null /\ num_tasks = 0
          /\ Len(input_json.fixed_slots) > MAX_SLOTS => fixed_slots = << >>
    /\ ~IsInvalidCountMessage
    /\ (TooManyTasks /\ (Done \/ (Exited /\ exit_code = 0)) /\ ~returned_null)
          => TrivialSchedule
    /\ (TooManyTasks /\ Exited /\ alloc_fail = "none") =>
          /\ exit_code = 0 /\ err = << >>
          /\ out = timeline_to_json(ReturnedTimeline, FALSE, FALSE)
          /\ out[3] = BoolText(TRUE)

\* a document with 501 tasks and a fixed slot was answered with exit code 0 and
\* the schedule that holds the fixed slot only
C38_Witness ==
    /\ Exited /\ exit_code = 0 /\ alloc_fail = "none"
    /\ Len(input_json.tasks) = MAX_TASKS + 1
    /\ NamedFixed # {}
    /\ TrivialSchedule /\ out[3] = BoolText(TRUE)

====
